---------------------------- MODULE Spec2Model ----------------------------
(***************************************************************************)
(* Monitoring and alerting core of Router_Portal: the scheduled latency,   *)
(* optical and resource jobs of scheduler.py, the notification helpers of  *)
(* telegram_utils.py and the job registration of start_monitoring_job.     *)
(***************************************************************************)
EXTENDS Integers, Sequences, FiniteSets, TLC

VARIABLES
    now,                \* wall clock, seconds (datetime.now(timezone.utc))
    settings,           \* company_telegram_settings rows, by company id
    devices,            \* devices rows, by device id
    ping_checks,        \* ping_checks rows, by check id
    ping_samples,       \* ping_samples rows of each check (count, newest row)
    fiber_checks,       \* fiber_checks rows, by check id
    fiber_samples,      \* fiber_samples rows of each check (count, newest row)
    resource_metrics,   \* resource_metrics rows of each device (count, newest)
    sent,               \* send_company_telegram_message calls of the last operation
    obs,                \* what the last operation did with each item
    jobs,               \* scheduler job store: job id -> seconds to next run
    instances,          \* executor: running instances of each job id
    failures            \* executor: executions that ended by raising, per job id

vars == <<now, settings, devices, ping_checks, ping_samples, fiber_checks,
          fiber_samples, resource_metrics, sent, obs, jobs, instances,
          failures>>

storeVars == <<now, settings, devices, ping_checks, ping_samples,
               fiber_checks, fiber_samples, resource_metrics, sent, obs>>

schedVars == <<jobs, instances, failures>>

-----------------------------------------------------------------------------
(* Bounds of the model                                                     *)

\* the clock stops advancing at MaxNow
MaxNow == 7

\* the clock bound of the executions that process two enabled devices
MaxBatchNow == 2

-----------------------------------------------------------------------------
(* Program constants                                                       *)

\* Python None in a nullable column
None == -1

\* scheduler.py:187 and :203, "consecutive_failures >= 5"
FailureThreshold == 5

\* scheduler.py:231 and :448, "total_seconds() >= 1800"
ReminderSecs == 1800

\* models.py:125, high_ping_threshold_ms default
DefaultHighPing == 90

\* the rows of the tables: one company, two devices, one ping check and one
\* fiber check on each device
CompanyIds == {1}
ItemIds == {1, 2}
DeviceIds == ItemIds
PingIds == ItemIds
FiberIds == ItemIds

\* probe results used as inputs: a round trip below and above the threshold
RttLow == 10
RttHigh == 120

-----------------------------------------------------------------------------
(* Datetimes.  Values made by datetime.now(timezone.utc) are timezone      *)
(* aware; the SQLite store keeps no offset, so a DateTime column read back *)
(* from the database is naive (app.py:275-277 and :940-941 handle exactly  *)
(* that).  Subtracting a naive from an aware datetime raises TypeError.    *)

utcnow(t) == [t |-> t, aware |-> TRUE]

\* value of a DateTime column as loaded from the store
DbLoad(col) == [t |-> col, aware |-> FALSE]

\* value written to a DateTime column
DbStore(dt) == dt.t

\* a - b raises TypeError when exactly one operand is naive
DtSubRaises(a, b) == a.aware # b.aware

DtSub(a, b) == a.t - b.t

-----------------------------------------------------------------------------
(* telegram_utils.py                                                       *)

\* should_send_company_alert(company_id, alert_type)
should_send_company_alert(company_id, alert_type) ==
    LET s == settings[company_id] IN
    IF ~s.present \/ ~s.enabled THEN FALSE
    ELSE IF alert_type = "ping_down" /\ s.ping_down_alerts THEN TRUE
    ELSE IF alert_type = "fiber_down" /\ s.fiber_down_alerts THEN TRUE
    ELSE IF alert_type = "high_ping" /\ s.high_ping_alerts THEN TRUE
    ELSE FALSE

\* get_company_ping_threshold(company_id)
get_company_ping_threshold(company_id) ==
    LET s == settings[company_id] IN
    IF s.present THEN s.high_ping_threshold_ms ELSE DefaultHighPing

\* send_company_telegram_message(company_id, text): the outcome of the call.
\* "suppressed": returned False before any network call; otherwise one POST,
\* "sent" when the response is ok and "failed" when it is not or it raised.
send_company_telegram_message(company_id, net_ok) ==
    LET s == settings[company_id] IN
    IF ~s.present THEN "suppressed"
    ELSE IF ~s.enabled THEN "suppressed"
    ELSE IF ~s.has_token \/ ~s.has_chat THEN "suppressed"
    ELSE IF net_ok THEN "sent" ELSE "failed"

\* one call of send_company_telegram_message made by a job; duration is the
\* outage duration a RESTORED text reports, None in every other message
MsgD(kind, company_id, item, net_ok, duration) ==
    [kind |-> kind, company |-> company_id, item |-> item,
     result |-> send_company_telegram_message(company_id, net_ok),
     duration |-> duration]

-----------------------------------------------------------------------------
(* Inputs of one job execution                                             *)

\* run_ping_on_router: None (timeout / unreachable), a round trip time, or
\* an exception that escapes the call
Raise == -2
PingOutcomes == {None, RttLow, RttHigh, Raise}

\* obs: the operation that ran last, and for each item how its iteration
\* ended, the probe result it got and the number of sample rows it added
NoObs == [job |-> "none",
          status |-> [i \in ItemIds |-> "none"],
          probe |-> [i \in ItemIds |-> None],
          added |-> [i \in ItemIds |-> 0]]

-----------------------------------------------------------------------------
(* scheduler.py, _scheduled_ping_job                                       *)

\* lines 145-147: the check is polled
PingPolled(id) ==
    LET d == devices[ping_checks[id].device_id] IN
    ping_checks[id].present /\ d.present /\ d.enabled /\ d.company_id # None

\* line 187 with the comparison off by one
PingDownDue_late(c, cf1, cid) ==
    /\ cf1 > FailureThreshold
    /\ ~c.alerted
    /\ should_send_company_alert(cid, "ping_down")

\* line 187 without the "not check.alerted" guard
PingDownDue_repeat(c, cf1, cid) ==
    /\ cf1 >= FailureThreshold
    /\ should_send_company_alert(cid, "ping_down")

\* line 187: the DOWN alert is due
PingDownDue(c, cf1, cid) ==
    /\ cf1 >= FailureThreshold
    /\ ~c.alerted
    /\ should_send_company_alert(cid, "ping_down")

\* lines 182-183 left out: the outage timer is never started
PingDownStart_never(c, nowdt) == DbLoad(c.down_start_at)

\* lines 182-183: the outage timer, started on the first failure
PingDownStart(c, nowdt) ==
    IF c.down_start_at = None THEN nowdt ELSE DbLoad(c.down_start_at)

\* line 200 made to depend on the delivery
PingAlertedAfter_if_sent(c, sendDown, cid, net_ok) ==
    c.alerted \/ (sendDown /\ send_company_telegram_message(cid, net_ok) = "sent")

\* line 200: alerted is set after the send, whatever it returned
PingAlertedAfter(c, sendDown, cid, net_ok) == c.alerted \/ sendDown

\* line 203: the RESTORED alert is due
PingRestoreDue(c) ==
    c.alerted \/ c.consecutive_failures >= FailureThreshold

\* lines 223-225 without line 225: the outage timer survives the reset
PingReset_keeps_timer(c) ==
    [c EXCEPT !.consecutive_failures = 0, !.alerted = FALSE]

\* lines 223-225: the reset after a successful probe
PingReset(c) ==
    [c EXCEPT !.consecutive_failures = 0, !.alerted = FALSE,
              !.down_start_at = None]

\* line 166 with an inclusive comparison
PingHighDue_inclusive(rtt, cid) ==
    /\ rtt # None
    /\ should_send_company_alert(cid, "high_ping")
    /\ rtt >= get_company_ping_threshold(cid)

\* lines 164-166: the HIGH PING alert is due
PingHighDue(rtt, cid) ==
    /\ rtt # None
    /\ should_send_company_alert(cid, "high_ping")
    /\ rtt > get_company_ping_threshold(cid)

\* lines 145-248 for one check: the row and sample it leaves in the store,
\* the messages it sends and how the iteration ended
PingCheckStep(id, rtt, commit_ok, net_ok, t) ==
    LET c == ping_checks[id]
        d == devices[c.device_id]
        cid == d.company_id
        nowdt == utcnow(t)
        \* 158-161
        checked == nowdt
        c1 == [c EXCEPT !.last_rtt_ms = rtt,
                        !.last_checked_at = DbStore(checked)]
        \* 164-177
        high == PingHighDue(rtt, cid)
        highMsgs == IF high THEN <<MsgD("HIGH_PING", cid, id, net_ok, None)>>
                    ELSE <<>>
        \* 180-200, rtt is None
        down1 == PingDownStart(c, nowdt)
        cf1 == c.consecutive_failures + 1
        sendDown == PingDownDue(c, cf1, cid)
        alerted1 == PingAlertedAfter(c, sendDown, cid, net_ok)
        downMsgs == IF sendDown THEN <<MsgD("PING_DOWN", cid, id, net_ok, None)>>
                    ELSE <<>>
        \* 228-243, rtt is None: the elapsed time is taken from the
        \* last_checked_at that line 159 has just assigned
        remGate == /\ alerted1
                   /\ down1.t # None
                   /\ should_send_company_alert(cid, "ping_down")
        remDue == remGate /\ DtSub(nowdt, checked) >= ReminderSecs
        remRaises == remDue /\ DtSubRaises(nowdt, down1)
        remMsgs == IF remDue /\ ~remRaises
                   THEN <<MsgD("PING_STILL_DOWN", cid, id, net_ok, None)>>
                   ELSE <<>>
        \* 201-225, rtt is a number
        restore == PingRestoreDue(c)
        started == DbLoad(c.down_start_at)
        restoreRaises == /\ restore
                         /\ c.down_start_at # None
                         /\ DtSubRaises(nowdt, started)
        duration == IF c.down_start_at # None THEN DtSub(nowdt, started)
                    ELSE None
        restoreMsgs == IF restore /\ ~restoreRaises
                       THEN <<MsgD("PING_RESTORED", cid, id, net_ok, duration)>>
                       ELSE <<>>
        raised == IF rtt = None THEN remRaises ELSE restoreRaises
        newrow == IF rtt = None
                  THEN [c1 EXCEPT !.down_start_at = DbStore(down1),
                                  !.consecutive_failures = cf1,
                                  !.alerted = alerted1]
                  ELSE PingReset(c1)
        \* 245-248: commit, or rollback when the body or the commit raised
        committed == ~raised /\ commit_ok
    IN
    IF ~PingPolled(id)
      THEN [row |-> c, sample |-> FALSE, msgs |-> <<>>, status |-> "skip"]
    ELSE IF rtt = Raise
      THEN [row |-> c, sample |-> FALSE, msgs |-> <<>>, status |-> "raise"]
    ELSE [row |-> IF committed THEN newrow ELSE c,
          sample |-> committed,
          msgs |-> highMsgs \o (IF rtt = None THEN downMsgs \o remMsgs
                                ELSE restoreMsgs),
          status |-> IF raised THEN "error"
                     ELSE IF commit_ok THEN "committed" ELSE "commit_failed"]

\* the iteration of check id is reached only if no earlier one raised out of
\* the loop (the probe is called outside the try, line 149)
PingReached(id, probe, commit, net_ok, t) ==
    \A j \in PingIds :
        j < id => PingCheckStep(j, probe[j], commit[j], net_ok, t).status # "raise"

PingResult(id, probe, commit, net_ok, t) ==
    IF ~PingPolled(id) \/ PingReached(id, probe, commit, net_ok, t)
    THEN PingCheckStep(id, probe[id], commit[id], net_ok, t)
    ELSE [row |-> ping_checks[id], sample |-> FALSE, msgs |-> <<>>,
          status |-> "unreached"]

\* Input sets of a tick.  The probe result of an item whose row is filtered
\* out is not consulted, nor is the commit outcome of an iteration that the
\* loop does not get to, nor the network when nothing is posted.
ProbeInputs(polled, outcomes) ==
    {f \in [ItemIds -> outcomes \cup {None}] :
        \A i \in ItemIds : IF i \in polled THEN f[i] \in outcomes ELSE f[i] = None}

CommitInputs(polled, probe, escapes) ==
    {f \in [ItemIds -> BOOLEAN] :
        \A i \in ItemIds :
            (\/ i \notin polled
             \/ \E j \in polled : j <= i /\ probe[j] \in escapes)
            => f[i]}

RECURSIVE AllMsgs(_, _)
AllMsgs(res, ids) ==
    IF ids = {} THEN <<>>
    ELSE LET m == CHOOSE i \in ids : \A j \in ids : j <= i
         IN AllMsgs(res, ids \ {m}) \o res[m].msgs

NetInputs(msgs) ==
    IF \A k \in 1..Len(msgs) : msgs[k].result = "suppressed"
    THEN {TRUE} ELSE BOOLEAN

PingMsgs(probe, commit, net_ok, t) ==
    AllMsgs([id \in PingIds |-> PingResult(id, probe, commit, net_ok, t)],
            PingIds)

\* one execution of _scheduled_ping_job over PingCheck.query.all()
scheduled_ping_job(probe, commit, net_ok, delta) ==
    LET t == now + delta
        res == [id \in PingIds |-> PingResult(id, probe, commit, net_ok, t)]
    IN
    /\ now' = t
    /\ ping_checks' = [id \in PingIds |-> res[id].row]
    /\ ping_samples' = [id \in PingIds |->
                          IF res[id].sample
                          THEN [timestamp |-> t, value |-> probe[id]]
                          ELSE ping_samples[id]]
    /\ sent' = AllMsgs(res, PingIds)
    /\ obs' = [job |-> "ping",
               status |-> [id \in PingIds |-> res[id].status],
               probe |-> probe,
               added |-> [id \in PingIds |-> IF res[id].sample THEN 1 ELSE 0]]
    /\ UNCHANGED <<settings, devices, fiber_checks, fiber_samples,
                   resource_metrics>>
    /\ UNCHANGED schedVars

-----------------------------------------------------------------------------
(* scheduler.py, _scheduled_fiber_job                                      *)

\* get_interface_status_and_power: None, or a reading with if_oper_status
\* 0 (no status line), 1 (up) or 2 (down), or an exception
FiberOutcomes == {None, 0, 1, 2, Raise}

\* rx_power_dbm / tx_power_dbm of a reading: absent, or a value
Dbm == -7
PowerReadings == {None, Dbm}

\* lines 369-371 without the SNMP test
FiberPolled_any_snmp(id) ==
    LET d == devices[fiber_checks[id].device_id] IN
    fiber_checks[id].present /\ d.present /\ d.enabled /\ d.company_id # None

\* lines 369-371: the check is polled
FiberPolled(id) ==
    LET d == devices[fiber_checks[id].device_id] IN
    fiber_checks[id].present /\ d.present /\ d.enabled /\ d.company_id # None /\ d.snmp_ok

\* line 393: the DOWN branch
FiberDownDue(prev, oper, cid) ==
    prev = 1 /\ oper # 1 /\ should_send_company_alert(cid, "fiber_down")

\* line 412: the RESTORED branch
FiberRestoreDue(prev, oper, cid) ==
    prev # 1 /\ oper = 1 /\ should_send_company_alert(cid, "fiber_down")

\* line 444: the reminder branch
FiberReminderGate(c, oper, cid) ==
    /\ oper # 1
    /\ c.alerted_down
    /\ c.down_start_at # None
    /\ should_send_company_alert(cid, "fiber_down")

\* lines 369-473 for one check
FiberCheckStep(id, outcome, power, commit_ok, net_ok, t) ==
    LET c == fiber_checks[id]
        d == devices[c.device_id]
        cid == d.company_id
        nowdt == utcnow(t)
        \* 373-383: an exception of the probe is caught, res = None
        noRes == outcome \in {None, Raise}
        \* 386-390
        prev == c.last_oper_status
        oper == IF noRes THEN None ELSE outcome
        rx == IF noRes THEN None ELSE power
        checked == nowdt
        c1 == [c EXCEPT !.last_rx_dbm = rx, !.last_tx_dbm = rx,
                        !.last_oper_status = oper,
                        !.last_checked_at = DbStore(checked)]
        goDown == FiberDownDue(prev, oper, cid)
        goUp == ~goDown /\ FiberRestoreDue(prev, oper, cid)
        remGate == ~goDown /\ ~goUp /\ FiberReminderGate(c, oper, cid)
        \* 395-409
        down1 == IF c.down_start_at = None THEN nowdt
                 ELSE DbLoad(c.down_start_at)
        \* 413-441
        started == DbLoad(c.down_start_at)
        upRaises == goUp /\ c.down_start_at # None /\ DtSubRaises(nowdt, started)
        duration == IF c.down_start_at # None THEN DtSub(nowdt, started)
                    ELSE None
        \* 446-460: elapsed time since the last_checked_at assigned at 390
        remDue == remGate /\ DtSub(nowdt, checked) >= ReminderSecs
        remRaises == remDue /\ DtSubRaises(nowdt, started)
        raised == upRaises \/ remRaises
        msgs == IF goDown THEN <<MsgD("FIBER_DOWN", cid, id, net_ok, None)>>
                ELSE IF goUp /\ ~upRaises
                  THEN <<MsgD("FIBER_RESTORED", cid, id, net_ok, duration)>>
                ELSE IF remDue /\ ~remRaises
                  THEN <<MsgD("FIBER_STILL_DOWN", cid, id, net_ok, None)>>
                ELSE <<>>
        newrow == IF goDown
                    THEN [c1 EXCEPT !.down_start_at = DbStore(down1),
                                    !.alerted_down = TRUE]
                  ELSE IF goUp
                    THEN [c1 EXCEPT !.down_start_at = None,
                                    !.alerted_down = FALSE]
                  ELSE c1
        \* 462-473
        committed == ~raised /\ commit_ok
    IN
    IF ~FiberPolled(id)
      THEN [row |-> c, sample |-> FALSE, msgs |-> <<>>, status |-> "skip"]
    ELSE [row |-> IF committed THEN newrow ELSE c,
          sample |-> committed,
          msgs |-> msgs,
          status |-> IF raised THEN "error"
                     ELSE IF commit_ok THEN "committed" ELSE "commit_failed"]

\* the power reading is consulted only when the probe returned a reading
PowerInputs(probe) ==
    {f \in [ItemIds -> PowerReadings] :
        \A i \in ItemIds :
            (~FiberPolled(i) \/ probe[i] \in {None, Raise}) => f[i] = None}

FiberMsgs(probe, power, commit, net_ok, t) ==
    AllMsgs([id \in FiberIds |->
               FiberCheckStep(id, probe[id], power[id], commit[id], net_ok, t)],
            FiberIds)

\* one execution of _scheduled_fiber_job over FiberCheck.query.all()
scheduled_fiber_job(probe, power, commit, net_ok, delta) ==
    LET t == now + delta
        res == [id \in FiberIds |->
                  FiberCheckStep(id, probe[id], power[id], commit[id], net_ok, t)]
    IN
    /\ now' = t
    /\ fiber_checks' = [id \in FiberIds |-> res[id].row]
    /\ fiber_samples' = [id \in FiberIds |->
                           IF res[id].sample
                           THEN [timestamp |-> t, value |-> res[id].row.last_oper_status]
                           ELSE fiber_samples[id]]
    /\ sent' = AllMsgs(res, FiberIds)
    /\ obs' = [job |-> "fiber",
               status |-> [id \in FiberIds |-> res[id].status],
               probe |-> probe,
               added |-> [id \in FiberIds |-> IF res[id].sample THEN 1 ELSE 0]]
    /\ UNCHANGED <<settings, devices, ping_checks, ping_samples,
                   resource_metrics>>
    /\ UNCHANGED schedVars

\* app.py, fiber_probe (lines 1212-1261): the manual probe of one check
fiber_probe(id, outcome, power) ==
    LET c == fiber_checks[id]
        d == devices[c.device_id]
        noRes == outcome \in {None, Raise}
        ok == d.present /\ d.enabled /\ d.snmp_ok /\ ~noRes
    IN
    /\ ok
    /\ fiber_checks' = [fiber_checks EXCEPT ![id] =
                          [@ EXCEPT !.last_rx_dbm = power,
                                    !.last_tx_dbm = power,
                                    !.last_oper_status = outcome,
                                    !.last_checked_at = DbStore(utcnow(now))]]
    /\ fiber_samples' = [fiber_samples EXCEPT ![id] =
                           [timestamp |-> now, value |-> outcome]]
    /\ sent' = <<>>
    /\ obs' = [job |-> "fiber_probe",
               status |-> [i \in ItemIds |-> IF i = id THEN "committed" ELSE "none"],
               probe |-> [i \in ItemIds |-> IF i = id THEN outcome ELSE None],
               added |-> [i \in ItemIds |-> IF i = id THEN 1 ELSE 0]]
    /\ UNCHANGED <<now, settings, devices, ping_checks, ping_samples,
                   resource_metrics>>
    /\ UNCHANGED schedVars

-----------------------------------------------------------------------------
(* app.py, company_telegram_settings, action == 'save' (lines 840-861)     *)

company_telegram_settings(cid, tok, chat, en, pd, fd, hp) ==
    /\ settings[cid].present
    /\ settings' = [settings EXCEPT ![cid] =
                      [@ EXCEPT !.has_token = tok, !.has_chat = chat,
                                !.enabled = en,
                                !.ping_down_alerts = pd,
                                !.fiber_down_alerts = fd,
                                !.high_ping_alerts = hp]]
    /\ sent' = <<>>
    /\ obs' = [NoObs EXCEPT !.job = "settings"]
    /\ UNCHANGED <<now, devices, ping_checks, ping_samples, fiber_checks,
                   fiber_samples, resource_metrics>>
    /\ UNCHANGED schedVars

-----------------------------------------------------------------------------
(* Initial store: the rows as the web forms create them (models.py         *)
(* defaults), every device enabled and owned by company 1.                 *)

InitSettings ==
    [c \in CompanyIds |->
        [present |-> TRUE, has_token |-> TRUE, has_chat |-> TRUE,
         enabled |-> TRUE,
         ping_down_alerts |-> TRUE, fiber_down_alerts |-> TRUE,
         high_ping_alerts |-> TRUE,
         high_ping_threshold_ms |-> DefaultHighPing,
         report_interval_minutes |-> 60, last_report_sent_at |-> None]]

InitDevices ==
    [d \in DeviceIds |->
        [present |-> TRUE, enabled |-> TRUE, company_id |-> 1,
         schedule |-> "manual",
         snmp_ok |-> TRUE, last_cpu_alert_at |-> None,
         last_ram_alert_at |-> None, last_storage_alert_at |-> None]]

\* device 2 has been disabled, so only the checks of device 1 are polled
OneDevice == [InitDevices EXCEPT ![2].enabled = FALSE]

InitPingChecks ==
    [id \in PingIds |->
        [present |-> TRUE,
         device_id |-> id, last_rtt_ms |-> None, last_checked_at |-> None,
         consecutive_failures |-> 0, alerted |-> FALSE,
         down_start_at |-> None]]

InitFiberChecks ==
    [id \in FiberIds |->
        [present |-> TRUE,
         device_id |-> id, last_rx_dbm |-> None, last_tx_dbm |-> None,
         last_oper_status |-> None, last_checked_at |-> None,
         alerted_down |-> FALSE, down_start_at |-> None]]

\* a samples table is kept as its newest row per item
NoSamples == [id \in ItemIds |-> [timestamp |-> None, value |-> None]]

NoMetrics ==
    [id \in DeviceIds |->
        [timestamp |-> None, cpu_load_percent |-> None,
         total_memory_bytes |-> None, free_memory_bytes |-> None,
         total_storage_bytes |-> None, free_storage_bytes |-> None]]

InitStore(devs) ==
    /\ now = 0
    /\ settings = InitSettings
    /\ devices = devs
    /\ ping_checks = InitPingChecks
    /\ ping_samples = NoSamples
    /\ fiber_checks = InitFiberChecks
    /\ fiber_samples = NoSamples
    /\ resource_metrics = NoMetrics
    /\ sent = <<>>
    /\ obs = NoObs

InitSchedIdle ==
    /\ jobs = <<>>
    /\ instances = <<>>
    /\ failures = <<>>

-----------------------------------------------------------------------------
(* Latency polling: the ping job and the settings form                     *)

InitPing == InitStore(OneDevice) /\ InitSchedIdle

PingTick ==
    /\ now < MaxNow
    /\ \E probe \in ProbeInputs({i \in PingIds : PingPolled(i)}, PingOutcomes) :
         \E commit \in CommitInputs({i \in PingIds : PingPolled(i)}, probe, {Raise}) :
           \E net_ok \in NetInputs(PingMsgs(probe, commit, TRUE, now + 1)) :
             scheduled_ping_job(probe, commit, net_ok, 1)

PingSettingsSave ==
    \E en \in BOOLEAN, pd \in BOOLEAN, hp \in BOOLEAN :
        company_telegram_settings(1, TRUE, TRUE, en, pd, TRUE, hp)

NextPing == PingTick \/ PingSettingsSave

SpecPing == InitPing /\ [][NextPing]_vars


-----------------------------------------------------------------------------
(* Optical polling: the fiber job, the manual probe and the settings form  *)

InitFiber == InitStore(OneDevice) /\ InitSchedIdle

FiberTick ==
    /\ now < MaxNow
    /\ \E probe \in ProbeInputs({i \in FiberIds : FiberPolled(i)}, FiberOutcomes) :
         \E power \in PowerInputs(probe), commit \in CommitInputs({i \in FiberIds : FiberPolled(i)}, probe, {}) :
           \E net_ok \in NetInputs(FiberMsgs(probe, power, commit, TRUE, now + 1)) :
             scheduled_fiber_job(probe, power, commit, net_ok, 1)

FiberManualProbe ==
    \E id \in FiberIds, outcome \in FiberOutcomes, power \in PowerReadings :
        fiber_probe(id, outcome, power)

FiberSettingsSave ==
    \E en \in BOOLEAN, fd \in BOOLEAN :
        company_telegram_settings(1, TRUE, TRUE, en, TRUE, fd, TRUE)

NextFiber == FiberTick \/ FiberManualProbe \/ FiberSettingsSave

SpecFiber == InitFiber /\ [][NextFiber]_vars

-----------------------------------------------------------------------------
(* Properties of the latency state machine                                 *)

\* number of messages of a kind sent for an item
Count(msgs, kind, id) ==
    Cardinality({k \in 1..Len(msgs) : msgs[k].kind = kind /\ msgs[k].item = id})

\* the step is a ping tick that processed check id with this probe result;
\* a tick whose own commit failed is an item skipped for that tick
PingProcessed(id) ==
    /\ obs'.job = "ping"
    /\ obs'.status[id] \in {"committed", "commit_failed", "error"}

PingWritten(id) == obs'.job = "ping" /\ obs'.status[id] = "committed"

PingTimeout(id) == PingProcessed(id) /\ obs'.probe[id] = None

PingSuccess(id) == PingProcessed(id) /\ obs'.probe[id] \notin {None, Raise}

PingDownEnabled(id) ==
    should_send_company_alert(devices[ping_checks[id].device_id].company_id,
                              "ping_down")

\* C1: for a polled check with latency-down alerts enabled and alerted =
\* false, a timeout tick that brings consecutive_failures to at most
\* threshold-1 (the first four timeouts of a run started at 0) emits no DOWN
\* and leaves alerted false; the timeout tick taken at consecutive_failures =
\* threshold-1 emits exactly one DOWN and its write stores alerted = true and
\* consecutive_failures = threshold.  Every written timeout counts one.
C1_DownAtThreshold ==
    [][\A id \in PingIds :
        (PingTimeout(id) /\ PingDownEnabled(id) /\ ~ping_checks[id].alerted) =>
          /\ PingWritten(id) =>
               ping_checks'[id].consecutive_failures =
                   ping_checks[id].consecutive_failures + 1
          /\ ping_checks[id].consecutive_failures < FailureThreshold - 1 =>
               /\ Count(sent', "PING_DOWN", id) = 0
               /\ ~ping_checks'[id].alerted
          /\ ping_checks[id].consecutive_failures = FailureThreshold - 1 =>
               /\ Count(sent', "PING_DOWN", id) = 1
               /\ PingWritten(id) => ping_checks'[id].alerted
      ]_vars

\* the fifth timeout of a run has just sent DOWN and stored alerted = true
C1_Witness ==
    \E id \in PingIds :
        /\ obs.job = "ping" /\ obs.status[id] = "committed"
        /\ obs.probe[id] = None
        /\ ping_checks[id].consecutive_failures = FailureThreshold
        /\ ping_checks[id].alerted
        /\ Count(sent, "PING_DOWN", id) = 1

\* C2: for a check with alerted = true, a processed successful probe emits
\* exactly one RESTORED and stores consecutive_failures = 0, alerted = false,
\* down_start_at = null; a successful probe of a check that is not down emits
\* no RESTORED.
C2_RestoredOnce ==
    [][\A id \in PingIds :
        /\ (PingSuccess(id) /\ ping_checks[id].alerted
              /\ obs'.status[id] # "commit_failed") =>
             /\ Count(sent', "PING_RESTORED", id) = 1
             /\ ping_checks'[id].consecutive_failures = 0
             /\ ~ping_checks'[id].alerted
             /\ ping_checks'[id].down_start_at = None
        /\ (PingSuccess(id) /\ ~ping_checks[id].alerted
              /\ ping_checks[id].consecutive_failures < FailureThreshold) =>
             Count(sent', "PING_RESTORED", id) = 0
      ]_vars

C4_AlertedInvariant ==
    \A id \in PingIds :
        ping_checks[id].alerted =>
            /\ ping_checks[id].consecutive_failures >= FailureThreshold
            /\ ping_checks[id].down_start_at # None

\* an alerted check, seen after the settings form was saved
C4_Witness ==
    \E id \in PingIds :
        /\ ping_checks[id].alerted
        /\ obs.job = "settings"


-----------------------------------------------------------------------------
(* Properties of the optical state machine                                 *)

\* the step is a fiber tick that processed check id and whose own commit
\* did not fail
FiberProcessed(id) ==
    /\ obs'.job = "fiber"
    /\ obs'.status[id] \in {"committed", "error"}

\* the oper status the tick obtained: unset when the probe gave no reading
FiberReading(id) ==
    IF obs'.probe[id] \in {None, Raise} THEN None ELSE obs'.probe[id]

FiberDownEnabled(id) ==
    should_send_company_alert(devices[fiber_checks[id].device_id].company_id,
                              "fiber_down")

\* C5: with fiber-down alerts enabled, the tick that reads Down (2) after Up
\* (1) emits exactly one DOWN, a tick that reads Down after Down emits no
\* DOWN, and the tick that reads Up (1) after Down (2) emits exactly one
\* RESTORED, whose computed duration is not negative.
C5_FiberEdges ==
    [][\A id \in FiberIds :
        (FiberProcessed(id) /\ FiberDownEnabled(id)) =>
          LET prev == fiber_checks[id].last_oper_status
              cur == FiberReading(id)
          IN /\ (prev = 1 /\ cur = 2) => Count(sent', "FIBER_DOWN", id) = 1
             /\ (prev = 2 /\ cur = 2) => Count(sent', "FIBER_DOWN", id) = 0
             /\ (prev = 2 /\ cur = 1) =>
                  /\ Count(sent', "FIBER_RESTORED", id) = 1
                  /\ \A k \in 1..Len(sent') :
                       (sent'[k].kind = "FIBER_RESTORED" /\ sent'[k].duration # None)
                         => sent'[k].duration >= 0
      ]_vars

\* C6: after a tick in which the oper status goes from Up to non-Up,
\* alerted_down = true and down_start_at is the time of the tick; while the
\* status stays non-Up down_start_at is not overwritten; after a tick in
\* which it goes from non-Up to Up, alerted_down = false and down_start_at =
\* null.  For every notification configuration of the tenant.
C6_FiberStateFollowsEdges ==
    [][\A id \in FiberIds :
        FiberProcessed(id) =>
          LET prev == fiber_checks[id].last_oper_status
              cur == FiberReading(id)
          IN /\ (prev = 1 /\ cur # 1) =>
                  /\ fiber_checks'[id].alerted_down
                  /\ fiber_checks'[id].down_start_at = now'
             /\ (prev # 1 /\ cur # 1) =>
                  fiber_checks'[id].down_start_at = fiber_checks[id].down_start_at
             /\ (prev # 1 /\ cur = 1) =>
                  /\ ~fiber_checks'[id].alerted_down
                  /\ fiber_checks'[id].down_start_at = None
      ]_vars


-----------------------------------------------------------------------------
(* A polling tick over the checks of two enabled devices                   *)

InitBatch == InitStore(InitDevices) /\ InitSchedIdle

\* probe results of the two-device ticks: a timeout, a reply, an exception
BatchPingOutcomes == {None, RttLow, Raise}

\* oper status up, oper status down, an exception
BatchFiberOutcomes == {1, 2, Raise}

BatchPingTick ==
    /\ now < MaxBatchNow
    /\ \E probe \in ProbeInputs({i \in PingIds : PingPolled(i)}, BatchPingOutcomes) :
         \E commit \in CommitInputs({i \in PingIds : PingPolled(i)}, probe, {Raise}) :
           \E net_ok \in NetInputs(PingMsgs(probe, commit, TRUE, now + 1)) :
             scheduled_ping_job(probe, commit, net_ok, 1)

BatchFiberTick ==
    /\ now < MaxBatchNow
    /\ \E probe \in ProbeInputs({i \in FiberIds : FiberPolled(i)}, BatchFiberOutcomes) :
         \E commit \in CommitInputs({i \in FiberIds : FiberPolled(i)}, probe, {}) :
           \E net_ok \in NetInputs(FiberMsgs(probe, [i \in ItemIds |-> None],
                                             commit, TRUE, now + 1)) :
             scheduled_fiber_job(probe, [i \in ItemIds |-> None], commit,
                                 net_ok, 1)

NextBatch == BatchPingTick \/ BatchFiberTick

SpecBatch == InitBatch /\ [][NextBatch]_vars

-----------------------------------------------------------------------------
(* scheduler.py, _scheduled_monitoring_job                                 *)

\* line 108, THRESHOLD_PERCENT default
ThresholdPercent == 80

\* cpu_load_percent of the metrics a probe returns, below and above the
\* threshold
CpuLow == 79
CpuHigh == 85

\* metrics without a cpu_load_percent entry
NoCpu == -3

\* total and free bytes of memory or storage in the metrics: entries
\* missing, usage below the threshold, usage at the threshold
NoSize == [total |-> None, free |-> None]
SizeLow == [total |-> 100, free |-> 50]
SizeHigh == [total |-> 100, free |-> 20]
SizeReadings == {NoSize, SizeLow, SizeHigh}

\* memory and storage of the metrics of each device
NoUsage == [d \in DeviceIds |-> [mem |-> NoSize, disk |-> NoSize]]

\* line 110 with a strict comparison
Exceeds_strict(value, threshold) == value # None /\ value > threshold

\* line 110: cpu_load_percent is not None and >= threshold
Exceeds(value, threshold) == value # None /\ value >= threshold

\* lines 113-116 and 119-122: total is set and not zero, free is not None,
\* and (total - free) / total * 100 >= threshold
UsedExceeds(size, threshold) ==
    /\ size.total # None /\ size.total # 0
    /\ size.free # None
    /\ (size.total - size.free) * 100 >= threshold * size.total

\* lines 109-124: the names collected in alerts, in the order of the tests
AlertNames(cpu, mem, disk, threshold) ==
    (IF Exceeds(cpu, threshold) THEN <<"CPU">> ELSE <<>>)
    \o (IF UsedExceeds(mem, threshold) THEN <<"RAM">> ELSE <<>>)
    \o (IF UsedExceeds(disk, threshold) THEN <<"Storage">> ELSE <<>>)

\* fetch_device_resources: an exception (netmiko_utils.py:136 indexes a
\* short /proc/stat line), None, or metrics with this cpu_load_percent
ResourceOutcomes == {Raise, None, CpuLow, CpuHigh}

\* line 92: Device.query.filter_by(enabled=True)
ResourcePolled(d) == devices[d].present /\ devices[d].enabled

\* the device whose probe raises out of the loop (line 94 is not guarded),
\* None when no probe raises
ResourceAbortAt(probe) ==
    LET raising == {d \in DeviceIds : ResourcePolled(d) /\ probe[d] = Raise}
    IN IF raising = {} THEN None
       ELSE CHOOSE d \in raising : \A e \in raising : d <= e

\* lines 112, 117 and 123 stamp every metric named in the alert, whether or
\* not it was named: the variant that C32 rules out
ResourceStamped_any(d, cpu, mem, disk, t) ==
    IF AlertNames(cpu, mem, disk, ThresholdPercent) # <<>>
      THEN [devices[d] EXCEPT !.last_cpu_alert_at = t,
                              !.last_ram_alert_at = t,
                              !.last_storage_alert_at = t]
      ELSE devices[d]

\* lines 112, 117 and 123: the device row with the stamp of each metric that
\* is at or above the threshold set to the time of the tick; no stamp is
\* read anywhere in the job
ResourceStamped(d, cpu, mem, disk, t) ==
    [devices[d] EXCEPT
       !.last_cpu_alert_at =
           IF Exceeds(cpu, ThresholdPercent) THEN t ELSE @,
       !.last_ram_alert_at =
           IF UsedExceeds(mem, ThresholdPercent) THEN t ELSE @,
       !.last_storage_alert_at =
           IF UsedExceeds(disk, ThresholdPercent) THEN t ELSE @]

\* lines 93-133 for one device
ResourceStep(d, probe, usage, commit_ok, net_ok, t) ==
    LET abortAt == ResourceAbortAt(probe)
        aborted == abortAt # None
        \* line 134 is reached and succeeds
        persisted == ~aborted /\ commit_ok
        outcome == probe[d]
        cpu == IF outcome = NoCpu THEN None ELSE outcome
        mem == usage[d].mem
        disk == usage[d].disk
        names == AlertNames(cpu, mem, disk, ThresholdPercent)
        alert == names # <<>>
        cid == devices[d].company_id
        metric == [timestamp |-> t, cpu_load_percent |-> cpu,
                   total_memory_bytes |-> mem.total,
                   free_memory_bytes |-> mem.free,
                   total_storage_bytes |-> disk.total,
                   free_storage_bytes |-> disk.free]
        stamped == ResourceStamped(d, cpu, mem, disk, t)
    IN
    IF ~ResourcePolled(d)
      THEN [metric |-> resource_metrics[d], device |-> devices[d],
            msgs |-> <<>>, status |-> "skip"]
    ELSE IF aborted /\ d > abortAt
      THEN [metric |-> resource_metrics[d], device |-> devices[d],
            msgs |-> <<>>, status |-> "unreached"]
    ELSE IF outcome = Raise
      THEN [metric |-> resource_metrics[d], device |-> devices[d],
            msgs |-> <<>>, status |-> "raise"]
    ELSE IF outcome = None
      THEN [metric |-> resource_metrics[d], device |-> devices[d],
            msgs |-> <<>>, status |-> "no_metrics"]
    ELSE [metric |-> IF persisted THEN metric ELSE resource_metrics[d],
          device |-> IF persisted THEN stamped ELSE devices[d],
          msgs |-> IF alert /\ cid # None
                   THEN <<MsgD("RESOURCE_ALERT", cid, d, net_ok, None)
                            @@ [names |-> names]>>
                   ELSE <<>>,
          status |-> IF persisted THEN "committed" ELSE "rolled_back"]

ResourceMsgs(probe, usage, commit_ok, net_ok, t) ==
    AllMsgs([d \in DeviceIds |->
               ResourceStep(d, probe, usage, commit_ok, net_ok, t)],
            DeviceIds)

\* one execution of _scheduled_monitoring_job: one transaction for the batch
scheduled_monitoring_job(probe, usage, commit_ok, net_ok, delta) ==
    LET t == now + delta
        res == [d \in DeviceIds |->
                  ResourceStep(d, probe, usage, commit_ok, net_ok, t)]
    IN
    /\ now' = t
    /\ resource_metrics' = [d \in DeviceIds |-> res[d].metric]
    /\ devices' = [d \in DeviceIds |-> res[d].device]
    /\ sent' = AllMsgs(res, DeviceIds)
    /\ obs' = [job |-> "resource",
               status |-> [d \in DeviceIds |-> res[d].status],
               probe |-> probe,
               added |-> [d \in DeviceIds |->
                            IF res[d].status = "committed" THEN 1 ELSE 0]]
    /\ UNCHANGED <<settings, ping_checks, ping_samples, fiber_checks,
                   fiber_samples>>
    /\ UNCHANGED schedVars

-----------------------------------------------------------------------------
(* Resource polling: the monitoring job and the settings form              *)

InitResource == InitStore(InitDevices) /\ InitSchedIdle

\* the commit is not reached when a probe raised
ResourceCommitInputs(probe) ==
    IF ResourceAbortAt(probe) # None THEN {TRUE} ELSE BOOLEAN

ResourceTick ==
    /\ now < MaxBatchNow
    /\ \E probe \in ProbeInputs({d \in DeviceIds : ResourcePolled(d)}, ResourceOutcomes) :
         \E commit_ok \in ResourceCommitInputs(probe) :
           \E net_ok \in NetInputs(ResourceMsgs(probe, NoUsage, commit_ok,
                                                TRUE, now + 1)) :
             scheduled_monitoring_job(probe, NoUsage, commit_ok, net_ok, 1)

ResourceSettingsSave ==
    \E en \in BOOLEAN :
        company_telegram_settings(1, TRUE, TRUE, en, TRUE, TRUE, TRUE)

NextResource == ResourceTick \/ ResourceSettingsSave

SpecResource == InitResource /\ [][NextResource]_vars

\* C8: in a resource tick over two enabled devices where the probe of one
\* raises and the probe of the other returns metrics, the metrics row of the
\* other is persisted, whichever of the two comes first.
C8_ResourceIsolation ==
    [][\A i \in DeviceIds, j \in DeviceIds :
        (/\ obs'.job = "resource"
         /\ ResourcePolled(i) /\ ResourcePolled(j)
         /\ obs'.probe[i] = Raise
         /\ obs'.probe[j] \notin {Raise, None})
        => /\ obs'.added[j] = 1
           /\ resource_metrics'[j].timestamp = now'
           /\ resource_metrics'[j].cpu_load_percent = obs'.probe[j]
      ]_vars


-----------------------------------------------------------------------------
(* scheduler.py, the job store and executor of the BackgroundScheduler     *)

\* ids of the registered jobs (lines 260, 269, 278, 292 and _job_id)
JobIds == {"monitor_resources", "ping_checks_1s", "fiber_checks_1m",
           "hourly_performance_report", "backup_device_1"}

\* jobs with an IntervalTrigger (lines 268 and 277); the others have a
\* CronTrigger
IntervalJobs == {"ping_checks_1s", "fiber_checks_1m"}
CronJobs == JobIds \ IntervalJobs

\* IntervalTrigger(seconds=1) and IntervalTrigger(minutes=1), in seconds
PingIntervalSecs == 1
FiberIntervalSecs == 60

IntervalSecs(j) ==
    IF j = "ping_checks_1s" THEN PingIntervalSecs ELSE FiberIntervalSecs

\* the job functions that call should_send_company_alert,
\* send_company_telegram_message or get_company_ping_threshold
HelperCallers == {"monitor_resources", "ping_checks_1s", "fiber_checks_1m",
                  "hourly_performance_report"}

\* max_instances raised to 2
MaxInstances_two == 1 + 1

\* max_instances=1 of every add_job call
MaxInstances == 1

\* add_job of one job: a fresh trigger.  The first run of an interval
\* trigger is one interval after the call; a cron trigger keeps the wall
\* clock times it fires at.
add_job(j) ==
    IF j \in IntervalJobs
    THEN [trigger |-> "interval", next_in |-> IntervalSecs(j)]
    ELSE [trigger |-> "cron", next_in |-> None]

\* start_monitoring_job (lines 251-297): the four monitoring jobs are added
\* with replace_existing=True, which replaces the stored job and its next
\* run time
start_monitoring_job(js) ==
    [j \in JobIds |-> IF j \in HelperCallers THEN add_job(j) ELSE js[j]]

\* add_or_update_backup_job (lines 31-61): remove_job, then add_job with the
\* cron trigger of the device's schedule
add_or_update_backup_job(js) ==
    [js EXCEPT !["backup_device_1"] = add_job("backup_device_1")]

\* app.py, create_app (lines 258-268)
create_app(js) == start_monitoring_job(add_or_update_backup_job(js))

\* the executor's log: the job whose execution last ended by raising, and
\* the job whose due run was last skipped ("maximum number of running
\* instances reached")
NoFailures == [raised |-> "none", missed |-> "none"]

\* the scheduler handles a due job before anything else happens
NothingDue == \A j \in IntervalJobs : jobs[j].next_in > 0

\* the executor is handed a due run of job j: it starts unless
\* max_instances executions of j are running
submit_job(j) ==
    IF instances[j] < MaxInstances
    THEN /\ instances' = [instances EXCEPT ![j] = @ + 1]
         /\ failures' = failures
    ELSE /\ instances' = instances
         /\ failures' = [failures EXCEPT !.missed = j]

\* one second passes
SchedTick ==
    /\ NothingDue
    /\ jobs' = [j \in JobIds |->
                  IF j \in IntervalJobs
                  THEN [jobs[j] EXCEPT !.next_in = @ - 1]
                  ELSE jobs[j]]
    /\ UNCHANGED <<instances, failures>>
    /\ UNCHANGED storeVars

\* the run time of an interval job is reached
RunDue(j) ==
    /\ j \in IntervalJobs
    /\ jobs[j].next_in = 0
    /\ submit_job(j)
    /\ jobs' = [jobs EXCEPT ![j].next_in = IntervalSecs(j)]
    /\ UNCHANGED storeVars

\* a fire time of a cron job is reached
CronDue(j) ==
    /\ j \in CronJobs
    /\ submit_job(j)
    /\ UNCHANGED jobs
    /\ UNCHANGED storeVars

\* a running job function calls a notification helper, which builds an
\* application with create_app (telegram_utils.py:79, :162, :185)
HelperCall(j) ==
    /\ j \in HelperCallers
    /\ instances[j] > 0
    /\ NothingDue
    /\ jobs' = create_app(jobs)
    /\ UNCHANGED <<instances, failures>>
    /\ UNCHANGED storeVars

\* a running execution returns, or ends by raising: the executor logs the
\* exception and releases the instance
Finish(j, raised) ==
    /\ instances[j] > 0
    /\ instances' = [instances EXCEPT ![j] = @ - 1]
    /\ failures' = IF raised THEN [failures EXCEPT !.raised = j] ELSE failures
    /\ UNCHANGED jobs
    /\ UNCHANGED storeVars

\* the state after create_app at start-up
InitSched ==
    /\ InitStore(InitDevices)
    /\ jobs = [j \in JobIds |-> add_job(j)]
    /\ instances = [j \in JobIds |-> 0]
    /\ failures = NoFailures

SchedRunDue == \E j \in IntervalJobs : RunDue(j)
SchedCronDue == \E j \in CronJobs : CronDue(j)
SchedHelperCall == \E j \in HelperCallers : HelperCall(j)
SchedFinish == \E j \in JobIds, raised \in BOOLEAN : Finish(j, raised)

NextSched ==
    SchedTick \/ SchedRunDue \/ SchedCronDue \/ SchedHelperCall \/ SchedFinish

SpecSched == InitSched /\ [][NextSched]_vars

\* time passes, a due job is handed to the executor, every cron fire time
\* comes, and every execution ends
FairSched ==
    /\ SpecSched
    /\ WF_vars(SchedTick)
    /\ \A j \in IntervalJobs : WF_vars(RunDue(j))
    /\ \A j \in CronJobs : WF_vars(CronDue(j))
    /\ \A j \in JobIds : WF_vars(Finish(j, TRUE) \/ Finish(j, FALSE))

\* C9: at most one execution of a job runs at any time.
C9_NoOverlap == \A j \in JobIds : instances[j] <= 1

\* two different jobs are running while a due run of one of them has been
\* skipped
C9_Witness ==
    \E j \in JobIds, k \in JobIds :
        /\ j # k
        /\ instances[j] = 1
        /\ instances[k] = 1
        /\ failures.missed = j

\* C10: every registered job is started again and again, whatever
\* executions ended by raising.
C10_EveryTaskFiresForever ==
    \A j \in JobIds : []<>(instances[j] > 0)


-----------------------------------------------------------------------------
(* scheduler.py, backup job registration (lines 27-67), and the routes of  *)
(* app.py that call it                                                     *)

\* values of Device.schedule: the four of the schedule form, and a value
\* the edit form lets through (edit_device does not validate it)
ValidSchedules == {"manual", "daily", "weekly", "monthly"}
Schedules == ValidSchedules \cup {"hourly"}

\* a CronTrigger: the fields it was built with, None for a field left out
NoTrigger == [day_of_week |-> "none", day |-> None, hour |-> None, minute |-> None]

\* line 44 with another hour
CronFor_shifted(schedule) ==
    IF schedule = "daily"
      THEN [day_of_week |-> "none", day |-> None, hour |-> 3, minute |-> 0]
    ELSE IF schedule = "weekly"
      THEN [day_of_week |-> "sun", day |-> None, hour |-> 3, minute |-> 0]
    ELSE IF schedule = "monthly"
      THEN [day_of_week |-> "none", day |-> 1, hour |-> 4, minute |-> 0]
    ELSE NoTrigger

\* lines 43-50: the trigger of a schedule
CronFor(schedule) ==
    IF schedule = "daily"
      THEN [day_of_week |-> "none", day |-> None, hour |-> 2, minute |-> 0]
    ELSE IF schedule = "weekly"
      THEN [day_of_week |-> "sun", day |-> None, hour |-> 3, minute |-> 0]
    ELSE IF schedule = "monthly"
      THEN [day_of_week |-> "none", day |-> 1, hour |-> 4, minute |-> 0]
    ELSE NoTrigger

\* _job_id(device_id)
job_id(device_id) == <<"backup_device", device_id>>

\* lines 35-37 left out: the existing job stays
remove_job_keep(store, id) == store

\* scheduler.get_job(id) / scheduler.remove_job(id) on the job store, a set
\* of jobs
remove_job(store, id) == {j \in store : j.id # id}

\* scheduler.add_job(..., id=job_id, replace_existing=True)
scheduler_add_job(store, job) == {j \in store : j.id # job.id} \cup {job}

\* add_or_update_backup_job(device), lines 31-61
backup_job_update(store, device_id, device) ==
    LET removed == remove_job(store, job_id(device_id)) IN
    IF ~device.enabled \/ device.schedule = "manual" THEN removed
    ELSE IF device.schedule \in {"daily", "weekly", "monthly"}
      THEN scheduler_add_job(removed, [id |-> job_id(device_id),
                                       trigger |-> CronFor(device.schedule)])
    ELSE removed

\* remove_backup_job(device_id), lines 64-67
remove_backup_job(store, device_id) == remove_job(store, job_id(device_id))

\* app.py, update_schedule (lines 496-515)
update_schedule(d, schedule) ==
    /\ devices[d].present
    /\ schedule \in ValidSchedules
    /\ devices' = [devices EXCEPT ![d].schedule = schedule]
    /\ jobs' = backup_job_update(jobs, d, devices'[d])
    /\ sent' = <<>>
    /\ obs' = [job |-> "update_schedule",
               status |-> [i \in ItemIds |-> IF i = d THEN "committed" ELSE "none"],
               probe |-> NoObs.probe, added |-> NoObs.added,
               was |-> devices[d].schedule]
    /\ UNCHANGED <<now, settings, ping_checks, ping_samples, fiber_checks,
                   fiber_samples, resource_metrics, instances, failures>>

\* app.py, edit_device (lines 392-441): the schedule of the form is stored
\* as it comes
edit_device(d, schedule) ==
    /\ devices[d].present
    /\ devices' = [devices EXCEPT ![d].schedule = schedule]
    /\ jobs' = backup_job_update(jobs, d, devices'[d])
    /\ sent' = <<>>
    /\ obs' = [job |-> "edit_device",
               status |-> [i \in ItemIds |-> IF i = d THEN "committed" ELSE "none"],
               probe |-> NoObs.probe, added |-> NoObs.added,
               was |-> devices[d].schedule]
    /\ UNCHANGED <<now, settings, ping_checks, ping_samples, fiber_checks,
                   fiber_samples, resource_metrics, instances, failures>>

\* a fire time of the backup job of device d comes and the executor runs
\* _scheduled_backup_job(d) (lines 70-83)
scheduled_backup_job(d) ==
    /\ \E j \in jobs : j.id = job_id(d)
    /\ sent' = <<>>
    /\ obs' = [NoObs EXCEPT !.job = "backup",
                            !.status = [i \in ItemIds |->
                                          IF i # d THEN "none"
                                          ELSE IF devices[d].present /\ devices[d].enabled
                                            THEN "committed" ELSE "skip"]]
    /\ UNCHANGED <<now, settings, devices, ping_checks, ping_samples,
                   fiber_checks, fiber_samples, resource_metrics, jobs,
                   instances, failures>>


\* app.py, delete_device (lines 451-467): the backup job, the metrics rows
\* and the device row are removed; no statement touches ping_checks or
\* fiber_checks, whose foreign keys carry no cascade and are not enforced
\* by the store
delete_device(d) ==
    /\ devices[d].present
    /\ jobs' = remove_backup_job(jobs, d)
    /\ resource_metrics' = [resource_metrics EXCEPT ![d] = NoMetrics[d]]
    /\ devices' = [devices EXCEPT ![d].present = FALSE]
    /\ sent' = <<>>
    /\ obs' = [NoObs EXCEPT !.job = "delete_device",
                            !.status = [i \in ItemIds |->
                                          IF i = d THEN "committed" ELSE "none"]]
    /\ UNCHANGED <<now, settings, ping_checks, ping_samples, fiber_checks,
                   fiber_samples, instances, failures>>

-----------------------------------------------------------------------------
(* Device administration: schedule changes, backups and deletion           *)

\* the devices as created by the add form (schedule manual, no job), one of
\* them possibly disabled
InitBackup ==
    /\ \E devs \in {InitDevices, OneDevice} : InitStore(devs)
    /\ jobs = {}
    /\ instances = <<>>
    /\ failures = <<>>

BackupUpdateSchedule ==
    \E d \in DeviceIds, schedule \in ValidSchedules : update_schedule(d, schedule)

BackupEditDevice ==
    \E d \in DeviceIds, schedule \in Schedules : edit_device(d, schedule)

BackupFire == \E d \in DeviceIds : scheduled_backup_job(d)

BackupDeleteDevice == \E d \in DeviceIds : delete_device(d)

NextBackup ==
    BackupUpdateSchedule \/ BackupEditDevice \/ BackupFire \/ BackupDeleteDevice

SpecBackup == InitBackup /\ [][NextBackup]_vars

\* the jobs the store holds for device d
BackupJobsOf(store, d) == {j \in store : j.id = job_id(d)}

\* C11: the call of add_or_update_backup_job that follows a change of a
\* device's schedule from daily to manual leaves no backup job for the
\* device, and no scheduled backup runs for a device whose schedule is
\* manual.
C11_ManualRemovesJob ==
    [][\A d \in DeviceIds :
        /\ (/\ obs'.job \in {"update_schedule", "edit_device"}
            /\ obs'.status[d] = "committed"
            /\ devices[d].schedule = "daily"
            /\ devices'[d].schedule = "manual")
           => BackupJobsOf(jobs', d) = {}
        /\ (obs'.job = "backup" /\ obs'.status[d] # "none")
           => devices[d].schedule # "manual"
      ]_vars

\* a daily schedule of an enabled device has just been changed to manual
C11_Witness ==
    \E d \in DeviceIds :
        /\ obs.job \in {"update_schedule", "edit_device"}
        /\ obs.status[d] = "committed"
        /\ obs.was = "daily"
        /\ devices[d].enabled
        /\ devices[d].schedule = "manual"
        /\ BackupJobsOf(jobs, d) = {}

\* C12: after add_or_update_backup_job(device) the store holds exactly one
\* backup job for an enabled device with schedule daily (02:00), weekly
\* (Sunday 03:00) or monthly (day 1, 04:00), and none for a device that is
\* disabled or whose schedule is manual or any other value.
C12_ScheduleToTrigger ==
    [][\A d \in DeviceIds :
        (obs'.job \in {"update_schedule", "edit_device"} /\ obs'.status[d] = "committed")
        => LET dev == devices'[d]
               mine == BackupJobsOf(jobs', d)
           IN IF dev.enabled /\ dev.schedule \in {"daily", "weekly", "monthly"}
              THEN /\ Cardinality(mine) = 1
                   /\ \A j \in mine :
                        /\ dev.schedule = "daily" =>
                             j.trigger = [day_of_week |-> "none", day |-> None,
                                          hour |-> 2, minute |-> 0]
                        /\ dev.schedule = "weekly" =>
                             j.trigger = [day_of_week |-> "sun", day |-> None,
                                          hour |-> 3, minute |-> 0]
                        /\ dev.schedule = "monthly" =>
                             j.trigger = [day_of_week |-> "none", day |-> 1,
                                          hour |-> 4, minute |-> 0]
              ELSE mine = {}
      ]_vars

\* a weekly job has replaced a daily one, and a disabled device has been
\* given a schedule
C12_Witness ==
    /\ obs.job \in {"update_schedule", "edit_device"}
    /\ \E d \in DeviceIds :
         /\ obs.status[d] = "committed"
         /\ obs.was = "daily"
         /\ devices[d].schedule = "weekly"
         /\ Cardinality(BackupJobsOf(jobs, d)) = 1
    /\ \E e \in DeviceIds :
         /\ ~devices[e].enabled
         /\ devices[e].schedule = "monthly"
         /\ BackupJobsOf(jobs, e) = {}

\* C18: after delete_device(d) no backup job, resource sample, latency check
\* or optical check refers to device d.
C18_DeleteCascades ==
    [][\A d \in DeviceIds :
        (obs'.job = "delete_device" /\ obs'.status[d] = "committed")
        => /\ BackupJobsOf(jobs', d) = {}
           /\ resource_metrics'[d] = NoMetrics[d]
           /\ \A id \in PingIds :
                ~(ping_checks'[id].present /\ ping_checks'[id].device_id = d)
           /\ \A id \in FiberIds :
                ~(fiber_checks'[id].present /\ fiber_checks'[id].device_id = d)
      ]_vars


-----------------------------------------------------------------------------
(* telegram_utils.py: the delivery attempts of one send                    *)

\* outcome of requests.post: a 2xx response, another response, an exception
PostOutcomes == {"ok", "http_error", "exception"}

\* a second POST after a failed one
requests_post_calls_retry(company_id, post) ==
    IF send_company_telegram_message(company_id, post = "ok") = "suppressed"
    THEN 0
    ELSE IF post = "ok" THEN 1 ELSE 2

\* number of requests.post calls of send_company_telegram_message (lines
\* 74-113) and send_company_telegram_message_with_details (116-154): none
\* on the early returns, the one at line 96 / 135 otherwise
requests_post_calls(company_id, post) ==
    IF send_company_telegram_message(company_id, post = "ok") = "suppressed"
    THEN 0
    ELSE 1

\* one call of a send function from outside the jobs (admin_report_send,
\* app.py:1012; the test action, app.py:873)
telegram_send(job, company_id, post) ==
    /\ sent' = <<[kind |-> "TEXT", company |-> company_id, item |-> None,
                  result |-> send_company_telegram_message(company_id, post = "ok"),
                  duration |-> None,
                  posts |-> requests_post_calls(company_id, post)]>>
    /\ obs' = [NoObs EXCEPT !.job = job]
    /\ UNCHANGED <<now, settings, devices, ping_checks, ping_samples,
                   fiber_checks, fiber_samples, resource_metrics>>
    /\ UNCHANGED schedVars

\* app.py:829-834: opening the settings page creates the tenant's row with
\* the column defaults of models.py:116-127
company_telegram_settings_get(cid) ==
    /\ ~settings[cid].present
    /\ settings' = [settings EXCEPT ![cid] =
                      [InitSettings[cid] EXCEPT !.has_token = FALSE,
                                                !.has_chat = FALSE]]
    /\ sent' = <<>>
    /\ obs' = [NoObs EXCEPT !.job = "settings"]
    /\ UNCHANGED <<now, devices, ping_checks, ping_samples, fiber_checks,
                   fiber_samples, resource_metrics>>
    /\ UNCHANGED schedVars

\* a tenant without a settings row
InitTelegram ==
    /\ now = 0
    /\ settings = [c \in CompanyIds |->
                     [InitSettings[c] EXCEPT !.present = FALSE,
                                             !.has_token = FALSE,
                                             !.has_chat = FALSE]]
    /\ devices = InitDevices
    /\ ping_checks = InitPingChecks
    /\ ping_samples = NoSamples
    /\ fiber_checks = InitFiberChecks
    /\ fiber_samples = NoSamples
    /\ resource_metrics = NoMetrics
    /\ sent = <<>>
    /\ obs = NoObs
    /\ InitSchedIdle

TelegramOpenSettings == \E cid \in CompanyIds : company_telegram_settings_get(cid)

TelegramSave ==
    \E cid \in CompanyIds, tok \in BOOLEAN, chat \in BOOLEAN, en \in BOOLEAN,
       pd \in BOOLEAN, fd \in BOOLEAN, hp \in BOOLEAN :
        company_telegram_settings(cid, tok, chat, en, pd, fd, hp)

TelegramSend ==
    \E cid \in CompanyIds, post \in PostOutcomes :
        telegram_send("send", cid, post)

TelegramSendWithDetails ==
    \E cid \in CompanyIds, post \in PostOutcomes :
        telegram_send("send_with_details", cid, post)

NextTelegram ==
    TelegramOpenSettings \/ TelegramSave \/ TelegramSend \/ TelegramSendWithDetails

SpecTelegram == InitTelegram /\ [][NextTelegram]_vars

\* the send of the last step could not go out: no row, disabled, no token
\* or no chat id
Unconfigured(cid) ==
    \/ ~settings[cid].present
    \/ ~settings[cid].enabled
    \/ ~settings[cid].has_token
    \/ ~settings[cid].has_chat

-----------------------------------------------------------------------------
(* Delivery failures: the latency and the optical job of one device, with  *)
(* probes that answer and writes that commit                               *)

InitSendFail == InitStore(OneDevice) /\ InitSchedIdle

\* a timeout or a reply
SendFailPingOutcomes == {None, RttLow}

\* oper status up or down
SendFailFiberOutcomes == {1, 2}

AllCommit == [i \in ItemIds |-> TRUE]
NoPower == [i \in ItemIds |-> None]

SendFailPingTick ==
    /\ now < MaxNow
    /\ \E probe \in ProbeInputs({i \in PingIds : PingPolled(i)}, SendFailPingOutcomes) :
         \E net_ok \in NetInputs(PingMsgs(probe, AllCommit, TRUE, now + 1)) :
           scheduled_ping_job(probe, AllCommit, net_ok, 1)

SendFailFiberTick ==
    /\ now < MaxNow
    /\ \E probe \in ProbeInputs({i \in FiberIds : FiberPolled(i)}, SendFailFiberOutcomes) :
         \E net_ok \in NetInputs(FiberMsgs(probe, NoPower, AllCommit, TRUE, now + 1)) :
           scheduled_fiber_job(probe, NoPower, AllCommit, net_ok, 1)

NextSendFail == SendFailPingTick \/ SendFailFiberTick

SpecSendFail == InitSendFail /\ [][NextSendFail]_vars

\* a message of this kind for the item was posted and the delivery failed
FailedSend(msgs, kind, id) ==
    \E k \in 1..Len(msgs) :
        msgs[k].kind = kind /\ msgs[k].item = id /\ msgs[k].result = "failed"

-----------------------------------------------------------------------------
(* Resource alerts: the monitoring job over full samples                   *)

InitAlert == InitStore(OneDevice) /\ InitSchedIdle

\* cpu_load_percent of a returned sample: missing, 79, 80 and 85
AlertCpuOutcomes == {NoCpu, CpuLow, ThresholdPercent, CpuHigh}

UsageInputs ==
    {u \in [DeviceIds -> [mem : SizeReadings, disk : SizeReadings]] :
        \A d \in DeviceIds : ~ResourcePolled(d) => u[d] = NoUsage[d]}

AlertTick ==
    /\ now < MaxBatchNow
    /\ \E probe \in ProbeInputs({d \in DeviceIds : ResourcePolled(d)},
                                AlertCpuOutcomes) :
         \E usage \in UsageInputs :
           \E net_ok \in NetInputs(ResourceMsgs(probe, usage, TRUE, TRUE,
                                                now + 1)) :
             scheduled_monitoring_job(probe, usage, TRUE, net_ok, 1)

AlertSettingsSave ==
    \E en \in BOOLEAN :
        company_telegram_settings(1, TRUE, TRUE, en, TRUE, TRUE, TRUE)

NextAlert == AlertTick \/ AlertSettingsSave

SpecAlert == InitAlert /\ [][NextAlert]_vars

\* used share of a stored sample in percent, rounded down; None when the
\* sample has no total or no free value
UsedPercent(total, free) ==
    IF total = None \/ total = 0 \/ free = None THEN None
    ELSE ((total - free) * 100) \div total

\* the names a stored sample calls for under threshold T
NamesDue(m, T) ==
    {n \in {"CPU", "RAM", "Storage"} :
        LET v == IF n = "CPU" THEN m.cpu_load_percent
                 ELSE IF n = "RAM"
                   THEN UsedPercent(m.total_memory_bytes, m.free_memory_bytes)
                   ELSE UsedPercent(m.total_storage_bytes,
                                    m.free_storage_bytes)
        IN v # None /\ v >= T}

\* the RESOURCE_ALERT messages of the newest tick about device d
AlertsAbout(msgs, d) ==
    {k \in 1..Len(msgs) :
        msgs[k].kind = "RESOURCE_ALERT" /\ msgs[k].item = d}

SeqRange(q) == {q[k] : k \in 1..Len(q)}

-----------------------------------------------------------------------------
(* _chunk_text_for_telegram, imported at app.py:18 and called at           *)
(* app.py:1006; scheduler.py does not define it, so it is modelled from    *)
(* the description of chunk(text, max_len): ordered parts, split on line   *)
(* breaks where there is one, each part within max_len                     *)

\* longest text and largest max_len tried
MaxTextLen == 5
MaxChunkLen == 3

\* characters of a text: a line break and two others
NL == "\n"
Chars == {"a", "b", NL}

Texts == UNION {[1..n -> Chars] : n \in 0..MaxTextLen}

\* the position after which a text longer than max_len is cut: the last line
\* break among its first max_len characters, max_len when there is none
CutAt(text, max_len) ==
    LET breaks == {k \in 1..max_len : text[k] = NL}
    IN IF breaks = {} THEN max_len
       ELSE CHOOSE k \in breaks : \A j \in breaks : j <= k

\* a split that drops the line break it cuts at
RECURSIVE chunk_drop_break(_, _)
chunk_drop_break(text, max_len) ==
    IF Len(text) <= max_len THEN <<text>>
    ELSE LET cut == CutAt(text, max_len)
             keep == IF text[cut] = NL THEN cut - 1 ELSE cut
         IN <<SubSeq(text, 1, keep)>>
            \o chunk_drop_break(SubSeq(text, cut + 1, Len(text)), max_len)

RECURSIVE chunk(_, _)
chunk(text, max_len) ==
    IF Len(text) <= max_len THEN <<text>>
    ELSE LET cut == CutAt(text, max_len)
         IN <<SubSeq(text, 1, cut)>>
            \o chunk(SubSeq(text, cut + 1, Len(text)), max_len)

\* a text and a limit waiting to be split
InitChunk ==
    /\ now = 0
    /\ settings = InitSettings
    /\ devices = InitDevices
    /\ ping_checks = InitPingChecks
    /\ ping_samples = NoSamples
    /\ fiber_checks = InitFiberChecks
    /\ fiber_samples = NoSamples
    /\ resource_metrics = NoMetrics
    /\ sent = <<>>
    /\ \E text \in Texts, max_len \in 1..MaxChunkLen :
         obs = [job |-> "text", text |-> text, max_len |-> max_len]
    /\ InitSchedIdle

\* app.py:1006, parts = _chunk_text_for_telegram(text)
ChunkApply ==
    /\ obs.job = "text"
    /\ obs' = [job |-> "chunk", text |-> obs.text, max_len |-> obs.max_len,
               parts |-> chunk(obs.text, obs.max_len)]
    /\ UNCHANGED <<now, settings, devices, ping_checks, ping_samples,
                   fiber_checks, fiber_samples, resource_metrics, sent>>
    /\ UNCHANGED schedVars

NextChunk == ChunkApply

SpecChunk == InitChunk /\ [][NextChunk]_vars

RECURSIVE Concat(_)
Concat(parts) ==
    IF parts = <<>> THEN <<>> ELSE Head(parts) \o Concat(Tail(parts))

\* C16: the parts of a text, joined in order, are the text; no part is
\* longer than max_len; a text no longer than max_len comes back as one
\* part.
C16_ChunkRoundTrip ==
    obs.job = "chunk" =>
        /\ Concat(obs.parts) = obs.text
        /\ \A k \in 1..Len(obs.parts) : Len(obs.parts[k]) <= obs.max_len
        /\ Len(obs.text) <= obs.max_len => Len(obs.parts) = 1

\* a text split in three parts, the first one cut short at a line break
C16_Witness ==
    /\ obs.job = "chunk"
    /\ Len(obs.parts) = 3
    /\ Len(obs.parts[1]) < obs.max_len
    /\ obs.parts[1][Len(obs.parts[1])] = NL

-----------------------------------------------------------------------------
(* scheduler.py, _scheduled_hourly_report (lines 300-358), two tenants     *)
(* with one device each; the clock of this part counts minutes             *)

\* the clock stops advancing at MaxReportNow minutes
MaxReportNow == 180

\* CronTrigger(minute=0): minutes between two executions
ReportCronMinutes == 60

\* values the settings form accepts for report_interval_minutes
ReportIntervals == {15, 30, 60}

SecondsPerMinute == 60

ReportCompanyIds == {1, 2}

InitReportSettings == [c \in ReportCompanyIds |-> InitSettings[1]]

InitReportDevices == [d \in DeviceIds |-> [InitDevices[d] EXCEPT !.company_id = d]]

\* line 308-343: the tenants that own a device, in the order the devices
\* are read
CompanyOrders ==
    {q \in [1..2 -> ReportCompanyIds] : q[1] # q[2]}

\* lines 349-353 without the test of enabled
ReportSkipped_missing_only(c) == ~settings[c].present

\* lines 349-353: the tenant is skipped
ReportSkipped(c) == ~settings[c].present \/ ~settings[c].enabled

\* line 354: settings.report_interval_minutes or 60
ReportInterval(c) ==
    IF settings[c].report_interval_minutes = 0 THEN 60
    ELSE settings[c].report_interval_minutes

\* line 355 evaluated for tenant c at time t: "open", "closed", or "raised"
\* when the subtraction raises TypeError
ReportGate(c, t) ==
    LET last == settings[c].last_report_sent_at IN
    IF last = None THEN "open"
    ELSE IF DtSubRaises(utcnow(t), DbLoad(last)) THEN "raised"
    ELSE IF DtSub(utcnow(t), DbLoad(last)) * SecondsPerMinute
              >= ReportInterval(c) * SecondsPerMinute
      THEN "open"
    ELSE "closed"

\* how the iteration of the k-th tenant of the order ends: "skipped",
\* "open", "closed", "raised", or "none" when an earlier iteration raised
ReportOutcome(order, k, t) ==
    IF \E j \in 1..(k - 1) :
          ~ReportSkipped(order[j]) /\ ReportGate(order[j], t) = "raised"
    THEN "none"
    ELSE IF ReportSkipped(order[k]) THEN "skipped"
    ELSE ReportGate(order[k], t)

\* line 357: now if ok else settings.last_report_sent_at
ReportStamp(last, ok, t) == IF ok THEN DbStore(utcnow(t)) ELSE last

\* a message without a "Part i/N" prefix
NoPart == <<>>

\* lines 307-343: the report text of a tenant with few devices
ShortReports == [c \in ReportCompanyIds |-> <<"a">>]

\* lines 306-343: the tenants for which report lines are collected, before
\* any settings row is read: every tenant that owns a stored device
ReportLinesBuilt ==
    {devices[d].company_id : d \in {e \in DeviceIds : devices[e].present}}

\* one execution of _scheduled_hourly_report; line 358 commits once after
\* the loop, so nothing is stored when an iteration raised
scheduled_hourly_report(order, text, net_ok, delta) ==
    LET t == now + delta
        out == [k \in 1..2 |-> ReportOutcome(order, k, t)]
        raised == \E k \in 1..2 : out[k] = "raised"
        \* line 356: the joined lines go out as one message
        msg(k) == IF out[k] = "open"
                  THEN <<MsgD("REPORT", order[k], None, net_ok[order[k]], None)
                           @@ [text |-> text[order[k]], part |-> NoPart]>>
                  ELSE <<>>
        pos(c) == CHOOSE k \in 1..2 : order[k] = c
    IN
    /\ now' = t
    /\ sent' = msg(1) \o msg(2)
    /\ settings' =
         IF raised THEN settings
         ELSE [c \in ReportCompanyIds |->
                 IF out[pos(c)] = "open"
                 THEN [settings[c] EXCEPT !.last_report_sent_at =
                         ReportStamp(@, send_company_telegram_message(
                                           c, net_ok[c]) = "sent", t)]
                 ELSE settings[c]]
    /\ obs' = [job |-> "report", order |-> order,
               outcome |-> [c \in ReportCompanyIds |-> out[pos(c)]],
               built |-> ReportLinesBuilt]
    /\ UNCHANGED <<devices, ping_checks, ping_samples, fiber_checks,
                   fiber_samples, resource_metrics>>
    /\ UNCHANGED schedVars

\* app.py:840-861 with the interval and enabled fields of the form
report_settings_save(c, en, interval) ==
    /\ settings[c].present
    /\ settings' = [settings EXCEPT ![c] =
                      [@ EXCEPT !.enabled = en,
                                !.report_interval_minutes = interval]]
    /\ sent' = <<>>
    /\ obs' = [job |-> "settings", order |-> <<>>,
               outcome |-> [k \in ReportCompanyIds |-> "none"]]
    /\ UNCHANGED <<now, devices, ping_checks, ping_samples, fiber_checks,
                   fiber_samples, resource_metrics>>
    /\ UNCHANGED schedVars

InitReport ==
    /\ now = 0
    /\ settings = InitReportSettings
    /\ devices = InitReportDevices
    /\ ping_checks = InitPingChecks
    /\ ping_samples = NoSamples
    /\ fiber_checks = InitFiberChecks
    /\ fiber_samples = NoSamples
    /\ resource_metrics = NoMetrics
    /\ sent = <<>>
    /\ obs = [job |-> "none", order |-> <<>>,
              outcome |-> [k \in ReportCompanyIds |-> "none"]]
    /\ InitSchedIdle

ReportTick ==
    /\ now < MaxReportNow
    /\ \E order \in CompanyOrders :
         \E net_ok \in [ReportCompanyIds -> BOOLEAN] :
           scheduled_hourly_report(order, ShortReports, net_ok,
                                   ReportCronMinutes)

ReportSettingsSave ==
    \E c \in ReportCompanyIds, en \in BOOLEAN, interval \in ReportIntervals :
        report_settings_save(c, en, interval)

NextReport == ReportTick \/ ReportSettingsSave

SpecReport == InitReport /\ [][NextReport]_vars

\* the reports dispatched to tenant c in the newest execution
ReportsTo(msgs, c) ==
    {k \in 1..Len(msgs) : msgs[k].kind = "REPORT" /\ msgs[k].company = c}

\* C17: in an execution of the report task a tenant's report is dispatched
\* only when last_report_sent_at is null or at least the tenant's interval
\* old; last_report_sent_at becomes the time of the execution exactly when
\* the dispatch succeeded and is unchanged otherwise.
C17_ReportGateAndStamp ==
    [][obs'.job = "report" =>
        \A c \in ReportCompanyIds :
          LET last == settings[c].last_report_sent_at
              reports == ReportsTo(sent', c)
              delivered == \E k \in reports : sent'[k].result = "sent"
          IN /\ reports # {} =>
                  \/ last = None
                  \/ (now' - last) * SecondsPerMinute
                       >= ReportInterval(c) * SecondsPerMinute
             /\ delivered => settings'[c].last_report_sent_at = now'
             /\ ~delivered => settings'[c].last_report_sent_at = last
      ]_vars

-----------------------------------------------------------------------------
(* Writers of the latest-state fields: the optical job, the manual probe   *)
(* and the edit form of a latency check                                    *)

\* app.py, edit_ping (lines 647-679), POST with a name and a target: only
\* name, target_ip, source_ip and source_interface are assigned
edit_ping(id) ==
    /\ ping_checks[id].present
    /\ devices[ping_checks[id].device_id].present
    /\ ping_checks' = ping_checks
    /\ sent' = <<>>
    /\ obs' = [NoObs EXCEPT !.job = "edit_ping"]
    /\ UNCHANGED <<now, settings, devices, ping_samples, fiber_checks,
                   fiber_samples, resource_metrics>>
    /\ UNCHANGED schedVars

OwnerEditPing == \E id \in PingIds : edit_ping(id)

NextOwner == FiberTick \/ FiberManualProbe \/ FiberSettingsSave \/ OwnerEditPing

SpecOwner == InitFiber /\ [][NextOwner]_vars

\* the latest-state fields of a latency check
PingLatest(c) ==
    <<c.last_rtt_ms, c.last_checked_at, c.consecutive_failures, c.alerted,
      c.down_start_at>>

\* the latest-state fields of an optical check
FiberLatest(c) ==
    <<c.last_rx_dbm, c.last_tx_dbm, c.last_oper_status, c.last_checked_at,
      c.alerted_down, c.down_start_at>>

\* C19: the latest-state fields of a latency check change only in an
\* execution of the latency job and those of an optical check only in an
\* execution of the optical job; every other operation, the edit form and
\* the manual probe included, leaves them as they were.
C19_OnlyJobsWriteLatestState ==
    [][/\ obs'.job # "ping" =>
            \A id \in PingIds :
                PingLatest(ping_checks'[id]) = PingLatest(ping_checks[id])
       /\ obs'.job # "fiber" =>
            \A id \in FiberIds :
                FiberLatest(fiber_checks'[id]) = FiberLatest(fiber_checks[id])
      ]_vars

-----------------------------------------------------------------------------
(* Latency reminders: executions of the ping job one second apart and      *)
(* more than ReminderSecs apart                                            *)

\* executions one second after the previous one, and executions
\* ReminderSecs + 1 seconds after it, that the clock allows
MaxShortTicks == 5
MaxLongTicks == 2

\* seconds between two executions
ShortDelta == 1
LongDelta == ReminderSecs + 1

ReminderPingOutcomes == {None, RttLow}

InitReminder == InitStore(OneDevice) /\ InitSchedIdle

ReminderTickAfter(delta) ==
    \E probe \in ProbeInputs({i \in PingIds : PingPolled(i)},
                              ReminderPingOutcomes) :
      \E net_ok \in NetInputs(PingMsgs(probe, AllCommit, TRUE, now + delta)) :
        scheduled_ping_job(probe, AllCommit, net_ok, delta)

ReminderShortTick ==
    /\ now % LongDelta < MaxShortTicks
    /\ ReminderTickAfter(ShortDelta)

ReminderLongTick ==
    /\ now \div LongDelta < MaxLongTicks
    /\ ReminderTickAfter(LongDelta)

ReminderSettingsSave ==
    \E en \in BOOLEAN, pd \in BOOLEAN :
        company_telegram_settings(1, TRUE, TRUE, en, pd, TRUE, TRUE)

NextReminder == ReminderShortTick \/ ReminderLongTick \/ ReminderSettingsSave

SpecReminder == InitReminder /\ [][NextReminder]_vars

\* C20: when a latency check that is already alerted, with ping-down alerts
\* on, times out in a tick that comes more than 30 minutes after the
\* last_checked_at its previous tick stored, one STILL DOWN reminder is
\* emitted, the failure count grows by one and the outage start is kept;
\* when the tick comes sooner no reminder is emitted.
C20_ReminderAfterThirtyMinutes ==
    [][\A id \in PingIds :
        (/\ obs'.job = "ping"
         /\ obs'.status[id] = "committed"
         /\ obs'.probe[id] = None
         /\ ping_checks[id].alerted
         /\ ping_checks[id].last_checked_at # None
         /\ should_send_company_alert(devices[ping_checks[id].device_id].company_id,
                                      "ping_down"))
        => IF now' - ping_checks[id].last_checked_at > ReminderSecs
           THEN /\ Count(sent', "PING_STILL_DOWN", id) = 1
                /\ ping_checks'[id].consecutive_failures
                     = ping_checks[id].consecutive_failures + 1
                /\ ping_checks'[id].down_start_at = ping_checks[id].down_start_at
           ELSE Count(sent', "PING_STILL_DOWN", id) = 0
      ]_vars

-----------------------------------------------------------------------------
(* Optical reminders: executions of the fiber job a short time apart and   *)
(* more than ReminderSecs apart                                            *)

\* a reading that is up, a reading that is down, and no result
FiberReminderOutcomes == {1, 2, None}

InitFiberReminder == InitStore(OneDevice) /\ InitSchedIdle

FiberReminderTickAfter(delta) ==
    \E probe \in ProbeInputs({i \in FiberIds : FiberPolled(i)},
                              FiberReminderOutcomes) :
      \E net_ok \in NetInputs(FiberMsgs(probe, NoPower, AllCommit, TRUE,
                                          now + delta)) :
        scheduled_fiber_job(probe, NoPower, AllCommit, net_ok, delta)

FiberReminderShortTick ==
    /\ now % LongDelta < MaxShortTicks
    /\ FiberReminderTickAfter(ShortDelta)

FiberReminderLongTick ==
    /\ now \div LongDelta < MaxLongTicks
    /\ FiberReminderTickAfter(LongDelta)

FiberReminderSettingsSave ==
    \E en \in BOOLEAN, fd \in BOOLEAN :
        company_telegram_settings(1, TRUE, TRUE, en, TRUE, fd, TRUE)

NextFiberReminder ==
    FiberReminderShortTick \/ FiberReminderLongTick \/ FiberReminderSettingsSave

SpecFiberReminder == InitFiberReminder /\ [][NextFiberReminder]_vars

\* C21: when an optical check that is already alerted_down, with fiber-down
\* alerts on, reads a status other than up in a tick that comes 30 minutes
\* or more after the last_checked_at its previous tick stored, one STILL
\* DOWN reminder is emitted.
C21_FiberReminderAfterThirtyMinutes ==
    [][\A id \in FiberIds :
        (/\ obs'.job = "fiber"
         /\ obs'.status[id] = "committed"
         /\ obs'.probe[id] # 1
         /\ fiber_checks[id].alerted_down
         /\ fiber_checks[id].last_checked_at # None
         /\ should_send_company_alert(
                devices[fiber_checks[id].device_id].company_id, "fiber_down")
         /\ now' - fiber_checks[id].last_checked_at >= ReminderSecs)
        => Count(sent', "FIBER_STILL_DOWN", id) = 1
      ]_vars

\* C22: a fiber tick whose probe gave no result stores null readings and a
\* null oper status, emits no DOWN and leaves alerted_down and the outage
\* start as they were, also when the status stored before was up.
C22_UnavailableIsNotDown ==
    [][\A id \in FiberIds :
        (/\ obs'.job = "fiber"
         /\ obs'.status[id] = "committed"
         /\ obs'.probe[id] \in {None, Raise})
        => /\ fiber_checks'[id].last_rx_dbm = None
           /\ fiber_checks'[id].last_tx_dbm = None
           /\ fiber_checks'[id].last_oper_status = None
           /\ Count(sent', "FIBER_DOWN", id) = 0
           /\ fiber_checks'[id].alerted_down = fiber_checks[id].alerted_down
           /\ fiber_checks'[id].down_start_at = fiber_checks[id].down_start_at
      ]_vars

\* C23: a latency DOWN is emitted only on the timeout tick that takes
\* consecutive_failures from threshold - 1 to threshold, whatever the probe
\* outcomes and the changes of the alert toggles before it; no DOWN is
\* emitted on a tick that leaves the counter above the threshold.
C23_DownOnlyAtThreshold ==
    [][\A id \in PingIds :
        (/\ obs'.job = "ping"
         /\ obs'.status[id] = "committed"
         /\ Count(sent', "PING_DOWN", id) > 0)
        => /\ ping_checks[id].consecutive_failures = FailureThreshold - 1
           /\ ping_checks'[id].consecutive_failures = FailureThreshold
      ]_vars

\* C24: when the commit of a latency check fails in a tick that has
\* dispatched a DOWN, the check keeps its state from before the tick and no
\* sample is added, and the tick that follows dispatches no second DOWN
\* for the same outage.
C24_CommitFailureKeepsDownOnce ==
    [][\A id \in PingIds :
        /\ (/\ obs'.job = "ping"
            /\ obs'.status[id] = "commit_failed"
            /\ Count(sent', "PING_DOWN", id) > 0)
           => /\ ping_checks'[id] = ping_checks[id]
              /\ obs'.added[id] = 0
        /\ (/\ obs.job = "ping"
            /\ obs.status[id] = "commit_failed"
            /\ Count(sent, "PING_DOWN", id) > 0
            /\ obs'.job = "ping")
           => Count(sent', "PING_DOWN", id) = 0
      ]_vars

\* C25: the optical job is started again and again for as long as the
\* scheduler runs, also while the running jobs call the notification
\* helpers, each of which registers the monitoring jobs again.
C25_FiberKeepsFiring == []<>(instances["fiber_checks_1m"] > 0)

\* the step is a committed timeout tick of check id
PingTimeoutTick(id) ==
    /\ obs'.job = "ping"
    /\ obs'.status[id] = "committed"
    /\ obs'.probe[id] = None

\* the tick before this one probed check id and got a round trip time, and
\* its commit did not fail
PrevTickSucceeded(id) ==
    /\ obs.job = "ping"
    /\ obs.status[id] \in {"committed", "error"}
    /\ obs.probe[id] \notin {None, Raise}

\* the tick before this one was a committed timeout of check id
PrevTickTimedOut(id) ==
    /\ obs.job = "ping"
    /\ obs.status[id] = "committed"
    /\ obs.probe[id] = None

\* C26: a timeout tick of a polled latency check adds exactly 1 to
\* consecutive_failures; the first timeout of a run (the check was never
\* polled, or its previous tick got a reply) sets the outage start to the
\* time of the tick, and a timeout that follows a timeout keeps it.
C26_TimeoutBookkeeping ==
    [][\A id \in PingIds :
        PingTimeoutTick(id)
        => /\ ping_checks'[id].consecutive_failures
                = ping_checks[id].consecutive_failures + 1
           /\ (ping_checks[id].last_checked_at = None \/ PrevTickSucceeded(id))
                => ping_checks'[id].down_start_at = now'
           /\ PrevTickTimedOut(id)
                => ping_checks'[id].down_start_at = ping_checks[id].down_start_at
      ]_vars

\* C27: a ping tick that processes a polled check, whatever the probe
\* returned, adds exactly one sample with the probe result (null on a
\* timeout) and the tick's time, and stores the same result in last_rtt_ms
\* and the tick's time in last_checked_at.
C27_EveryTickStoresSample ==
    [][\A id \in PingIds :
        (/\ obs'.job = "ping"
         /\ obs'.status[id] \in {"committed", "error"})
        => /\ obs'.added[id] = 1
           /\ ping_samples'[id] = [timestamp |-> now', value |-> obs'.probe[id]]
           /\ ping_checks'[id].last_rtt_ms = obs'.probe[id]
           /\ ping_checks'[id].last_checked_at = now'
      ]_vars

-----------------------------------------------------------------------------
(* High latency alerts: the ping job with round trips below, at and above  *)
(* the tenant's threshold, and the threshold field of the settings form    *)

HighPingOutcomes == {None, RttLow, DefaultHighPing, RttHigh}

\* values saved as high_ping_threshold_ms
HighPingThresholds == {RttLow, DefaultHighPing}

\* app.py:840-861 with the enabled, high_ping_alerts and
\* high_ping_threshold_ms fields of the form
high_ping_settings_save(c, en, hp, threshold) ==
    /\ settings[c].present
    /\ settings' = [settings EXCEPT ![c] =
                      [@ EXCEPT !.enabled = en,
                                !.high_ping_alerts = hp,
                                !.high_ping_threshold_ms = threshold]]
    /\ sent' = <<>>
    /\ obs' = [NoObs EXCEPT !.job = "settings"]
    /\ UNCHANGED <<now, devices, ping_checks, ping_samples, fiber_checks,
                   fiber_samples, resource_metrics>>
    /\ UNCHANGED schedVars

InitHighPing == InitStore(OneDevice) /\ InitSchedIdle

HighPingTick ==
    /\ now < MaxNow
    /\ \E probe \in ProbeInputs({i \in PingIds : PingPolled(i)},
                                HighPingOutcomes) :
         \E net_ok \in NetInputs(PingMsgs(probe, AllCommit, TRUE, now + 1)) :
           scheduled_ping_job(probe, AllCommit, net_ok, 1)

HighPingSettingsSave ==
    \E en \in BOOLEAN, hp \in BOOLEAN, threshold \in HighPingThresholds :
        high_ping_settings_save(1, en, hp, threshold)

NextHighPing == HighPingTick \/ HighPingSettingsSave

SpecHighPing == InitHighPing /\ [][NextHighPing]_vars

\* C28: a ping tick that processes a check emits exactly one HIGH PING for
\* it when the probe replied with a round trip strictly above the tenant's
\* threshold and the tenant's alerts and high-ping category are on,
\* whatever the failure count and alerted flag of the check and whatever
\* was emitted on earlier ticks; otherwise it emits none.
C28_HighPingEveryQualifyingTick ==
    [][\A id \in PingIds :
        (/\ obs'.job = "ping"
         /\ obs'.status[id] \in {"committed", "error"})
        => LET s == settings[devices[ping_checks[id].device_id].company_id]
               rtt == obs'.probe[id]
               due == /\ rtt # None
                      /\ s.enabled /\ s.high_ping_alerts
                      /\ rtt > s.high_ping_threshold_ms
           IN Count(sent', "HIGH_PING", id) = IF due THEN 1 ELSE 0
      ]_vars

\* a round trip above the threshold on a check that is alerted has been
\* reported, on the tick after another one was
C28_Witness ==
    /\ obs.job = "ping"
    /\ obs.probe[1] = RttHigh
    /\ ping_checks[1].alerted
    /\ ping_checks[1].consecutive_failures >= FailureThreshold
    /\ Count(sent, "HIGH_PING", 1) = 1

\* C29: a tenant with reporting enabled gets a report once per its report
\* interval: an execution of the report task at which the tenant's last
\* report is at least one interval old dispatches a report to it, and the
\* report task runs often enough that no report is more than one interval
\* late, for each of the intervals 15, 30 and 60 minutes.
C29_ReportOncePerInterval ==
    [][obs'.job = "report" =>
        \A c \in ReportCompanyIds :
          LET last == settings[c].last_report_sent_at IN
          (settings[c].enabled /\ last # None)
          => /\ now' - last >= ReportInterval(c) => ReportsTo(sent', c) # {}
             /\ now' - now <= ReportInterval(c)
      ]_vars

-----------------------------------------------------------------------------
(* Report dispatch: the report job and app.py, admin_report_send (lines    *)
(* 957-1020), with report texts within and beyond the size limit           *)

\* the size limit of one message, in characters of the model's texts
ReportLimit == MaxChunkLen

\* report texts of the admin route: one character, or MaxTextLen characters
\* in lines of "a" separated by line breaks
AdminTexts ==
    {t \in Texts : Len(t) \in {1, MaxTextLen} /\ t[1] = "a"
                    /\ \A k \in 1..Len(t) : t[k] \in {"a", NL}}

\* a report text of a tenant with many devices, longer than the limit
LongReport == [k \in 1..MaxTextLen |-> IF k % 2 = 0 THEN NL ELSE "a"]

HourlyTexts == [ReportCompanyIds -> {<<"a">>, LongReport}]

\* lines 1009-1015: the parts sent, in order, up to and including the first
\* one whose send did not succeed; the send of part fail_at fails
AdminParts(c, parts, fail_at) ==
    LET N == Len(parts)
        ok(k) == send_company_telegram_message(c, k # fail_at) = "sent"
        failed == {k \in 1..N : ~ok(k)}
        stop == IF failed = {} THEN N
                ELSE CHOOSE k \in failed : \A j \in failed : k <= j
    IN [k \in 1..stop |->
          MsgD("REPORT", c, None, k # fail_at, None)
            @@ [text |-> parts[k],
                part |-> IF N > 1 THEN <<k, N>> ELSE NoPart]]

\* admin_report_send for a tenant whose settings exist and are enabled and
\* who owns a device
admin_report_send(c, text, fail_at) ==
    LET parts == chunk(text, ReportLimit)
        msgs == AdminParts(c, parts, fail_at)
        all_ok == /\ Len(msgs) = Len(parts)
                  /\ \A k \in 1..Len(msgs) : msgs[k].result = "sent"
    IN
    /\ settings[c].present /\ settings[c].enabled
    /\ sent' = msgs
    /\ settings' = IF all_ok
                   THEN [settings EXCEPT ![c].last_report_sent_at =
                                             DbStore(utcnow(now))]
                   ELSE settings
    /\ obs' = [job |-> "admin_report", order |-> <<c>>,
               outcome |-> [k \in ReportCompanyIds |-> "none"],
               text |-> text]
    /\ UNCHANGED <<now, devices, ping_checks, ping_samples, fiber_checks,
                   fiber_samples, resource_metrics>>
    /\ UNCHANGED schedVars

PartsHourlyTick ==
    /\ now < MaxReportNow
    /\ \E order \in CompanyOrders, text \in HourlyTexts :
         \E net_ok \in [ReportCompanyIds -> BOOLEAN] :
           scheduled_hourly_report(order, text, net_ok, ReportCronMinutes)

PartsAdminSend ==
    \E c \in ReportCompanyIds, text \in AdminTexts :
      \E fail_at \in 0..Len(chunk(text, ReportLimit)) :
        admin_report_send(c, text, fail_at)

NextReportParts == PartsHourlyTick \/ PartsAdminSend

SpecReportParts == InitReport /\ [][NextReportParts]_vars

\* C30: every report message, of the report job and of the admin route,
\* fits the size limit; the messages of a report of N > 1 parts are its
\* parts in order, the k-th marked k/N; no part follows a part whose send
\* failed; and last_report_sent_at is stamped only when every part was
\* sent.
C30_ReportSentInParts ==
    [][obs'.job \in {"report", "admin_report"} =>
        /\ \A k \in 1..Len(sent') :
              sent'[k].kind = "REPORT" => Len(sent'[k].text) <= ReportLimit
        /\ obs'.job = "admin_report" =>
              LET c == obs'.order[1]
                  N == IF sent'[1].part = NoPart THEN 1 ELSE sent'[1].part[2]
                  complete == /\ Len(sent') = N
                              /\ \A k \in 1..N : sent'[k].result = "sent"
              IN /\ Len(sent') <= N
                 /\ N > 1 => \A k \in 1..Len(sent') : sent'[k].part = <<k, N>>
                 /\ \A k \in 1..(Len(sent') - 1) : sent'[k].result = "sent"
                 /\ sent'[Len(sent')].result = "sent" => Len(sent') = N
                 /\ complete =>
                      Concat([k \in 1..N |-> sent'[k].text]) = obs'.text
                 /\ ~complete => settings'[c].last_report_sent_at
                                   = settings[c].last_report_sent_at
      ]_vars

-----------------------------------------------------------------------------
(* Resource alerts are stateless                                           *)

-----------------------------------------------------------------------------
(* Two tenants: device 1 and its latency check belong to tenant 1, device  *)
(* 2 and its check to tenant 2                                             *)

InitTenant ==
    /\ now = 0
    /\ settings = InitReportSettings
    /\ devices = InitReportDevices
    /\ ping_checks = InitPingChecks
    /\ ping_samples = NoSamples
    /\ fiber_checks = InitFiberChecks
    /\ fiber_samples = NoSamples
    /\ resource_metrics = NoMetrics
    /\ sent = <<>>
    /\ obs = NoObs
    /\ InitSchedIdle

\* a reply below the threshold, a reply above it, an exception
TenantPingOutcomes == {RttLow, RttHigh, Raise}

TenantPingTick ==
    /\ now < MaxBatchNow
    /\ \E probe \in ProbeInputs({i \in PingIds : PingPolled(i)},
                                TenantPingOutcomes) :
         \E net_ok \in NetInputs(PingMsgs(probe, AllCommit, TRUE, now + 1)) :
           scheduled_ping_job(probe, AllCommit, net_ok, 1)

TenantSettingsSave ==
    \E c \in ReportCompanyIds, en \in BOOLEAN, hp \in BOOLEAN :
        company_telegram_settings(c, TRUE, TRUE, en, TRUE, TRUE, hp)

NextTenant == TenantPingTick \/ TenantSettingsSave

SpecTenant == InitTenant /\ [][NextTenant]_vars

\* the tenant that owns latency check id
PingOwner(id) == devices[ping_checks[id].device_id].company_id

\* what tenant c is sent by a tick: the kind and the check of each message
\* addressed to it, in order
TenantView(msgs, c) ==
    LET ToC(m) == m.company = c
        mine == SelectSeq(msgs, ToC)
    IN [k \in 1..Len(mine) |-> <<mine[k].kind, mine[k].item>>]

C33_ReportTenantScoped ==
    \A c \in ReportCompanyIds, b \in ReportCompanyIds :
        b # c =>
          LET t == now + ReportCronMinutes IN
          (ReportOutcome(<<b, c>>, 2, t) = "open")
            <=> (ReportOutcome(<<c>>, 1, t) = "open")

-----------------------------------------------------------------------------
(* Pairing of DOWN and RESTORED                                            *)

\* C34: every RESTORED of a latency check is sent by a tick that found the
\* check alerted, that is, after a DOWN of the same check with no RESTORED
\* in between (alerted is set only with a DOWN, line 200, and cleared with
\* every reset, line 224), whatever the probe results and the changes of
\* the ping-down toggle were.
C34_RestoredAfterDown ==
    [][\A id \in PingIds :
        (obs'.job = "ping" /\ Count(sent', "PING_RESTORED", id) > 0)
        => ping_checks[id].alerted
      ]_vars

\* no RESTORED of a latency check is ever sent: line 207 raises first
C34_NoRestoredSent ==
    \A k \in 1..Len(sent) : sent[k].kind # "PING_RESTORED"

\* the RESTORED branch of line 203 is only entered for an alerted check
C34_RestoreBranchAfterDown ==
    [][\A id \in PingIds :
        (/\ obs'.job = "ping"
         /\ obs'.status[id] \notin {"skip", "unreached"}
         /\ obs'.probe[id] \notin {None, Raise}
         /\ PingRestoreDue(ping_checks[id]))
        => ping_checks[id].alerted
      ]_vars

\* C35: every RESTORED of an optical check is sent by a tick that found the
\* check alerted_down, that is, after a DOWN of the same check with no
\* RESTORED in between (alerted_down is set only with a DOWN, line 406, and
\* cleared with every RESTORED, line 438), for every sequence of probe
\* results from a new check on, unavailable probes included.
C35_FiberRestoredAfterDown ==
    [][\A id \in FiberIds :
        (obs'.job = "fiber" /\ Count(sent', "FIBER_RESTORED", id) > 0)
        => fiber_checks[id].alerted_down
      ]_vars

-----------------------------------------------------------------------------
(* Concurrent callers of the backup job registration.  A web request runs  *)
(* in a thread of the server (app.py:1530), a scheduled task in a thread   *)
(* of the scheduler's pool, where every notification helper calls          *)
(* create_app (telegram_utils.py:74-81, 157-190), which registers the      *)
(* backup job of every stored device again (app.py:258-265).  Each         *)
(* scheduler call is atomic; the calls of one caller are separate steps.   *)
(* instances holds the frame of each caller, failures the callers whose    *)
(* call raised.                                                            *)

RaceDevice == 1
WebCallers == {"web"}
TaskCallers == {"task_a", "task_b"}
Callers == WebCallers \cup TaskCallers

\* schedules the racing requests choose from
RaceSchedules == {"manual", "daily", "weekly"}

IdleFrame == [pc |-> "idle", op |-> "none", dev |-> InitDevices[RaceDevice]]

InitRace ==
    /\ InitStore(OneDevice)
    /\ jobs = {}
    /\ instances = [th \in Callers |-> IdleFrame]
    /\ failures = {}

\* what every step of a caller leaves alone
RaceStep(th, step) ==
    /\ sent' = <<>>
    /\ obs' = [NoObs EXCEPT !.job = step]
    /\ UNCHANGED <<now, settings, ping_checks, ping_samples, fiber_checks,
                   fiber_samples>>

\* app.py:498-511: the request loads the device, stores the schedule and
\* commits, then calls add_or_update_backup_job(device)
RaceUpdateSchedule(th, schedule) ==
    /\ th \in WebCallers
    /\ instances[th].pc = "idle"
    /\ devices[RaceDevice].present
    /\ devices' = [devices EXCEPT ![RaceDevice].schedule = schedule]
    /\ instances' = [instances EXCEPT ![th] =
                       [pc |-> "get", op |-> "update",
                        dev |-> devices'[RaceDevice]]]
    /\ RaceStep(th, "update_schedule")
    /\ UNCHANGED <<jobs, failures, resource_metrics>>

\* app.py:260-265: create_app reads Device.query.all() and calls
\* add_or_update_backup_job with each device as read
RaceCreateApp(th) ==
    /\ th \in TaskCallers
    /\ instances[th].pc = "idle"
    /\ devices[RaceDevice].present
    /\ instances' = [instances EXCEPT ![th] =
                       [pc |-> "get", op |-> "update",
                        dev |-> devices[RaceDevice]]]
    /\ RaceStep(th, "create_app")
    /\ UNCHANGED <<devices, jobs, failures, resource_metrics>>

\* app.py:454-461: the request loads the device and calls remove_backup_job
RaceDeleteDevice(th) ==
    /\ th \in WebCallers
    /\ instances[th].pc = "idle"
    /\ devices[RaceDevice].present
    /\ instances' = [instances EXCEPT ![th] =
                       [pc |-> "get", op |-> "delete",
                        dev |-> devices[RaceDevice]]]
    /\ RaceStep(th, "delete_device")
    /\ UNCHANGED <<devices, jobs, failures, resource_metrics>>

\* the step after the removal: lines 39-61 of add_or_update_backup_job, or
\* app.py:462-464 of delete_device
AfterRemoval(op) == IF op = "delete" THEN "commit" ELSE "decide"

\* scheduler.py:35-36 and 66: scheduler.get_job(job_id)
RaceGetJob(th) ==
    /\ instances[th].pc = "get"
    /\ instances' = [instances EXCEPT ![th].pc =
                       IF BackupJobsOf(jobs, RaceDevice) # {} THEN "remove"
                       ELSE AfterRemoval(instances[th].op)]
    /\ RaceStep(th, "get_job")
    /\ UNCHANGED <<devices, jobs, failures, resource_metrics>>

\* scheduler.py:37 and 67: scheduler.remove_job(job_id), which raises
\* JobLookupError when the store holds no job of that id; the exception
\* ends the caller's call
RaceRemoveJob(th) ==
    /\ instances[th].pc = "remove"
    /\ IF BackupJobsOf(jobs, RaceDevice) = {}
       THEN /\ failures' = failures \cup {th}
            /\ instances' = [instances EXCEPT ![th] = IdleFrame]
            /\ jobs' = jobs
       ELSE /\ failures' = failures
            /\ instances' = [instances EXCEPT ![th].pc =
                               AfterRemoval(instances[th].op)]
            /\ jobs' = remove_job(jobs, job_id(RaceDevice))
    /\ RaceStep(th, "remove_job")
    /\ UNCHANGED <<devices, resource_metrics>>

\* scheduler.py:39-61: the job of the device as the caller read it
backup_job_add(store, device_id, device) ==
    IF ~device.enabled \/ device.schedule = "manual" THEN store
    ELSE IF device.schedule \in {"daily", "weekly", "monthly"}
      THEN scheduler_add_job(store, [id |-> job_id(device_id),
                                     trigger |-> CronFor(device.schedule)])
    ELSE store

RaceAddJob(th) ==
    /\ instances[th].pc = "decide"
    /\ jobs' = backup_job_add(jobs, RaceDevice, instances[th].dev)
    /\ instances' = [instances EXCEPT ![th] = IdleFrame]
    /\ RaceStep(th, "add_job")
    /\ UNCHANGED <<devices, failures, resource_metrics>>

\* app.py:462-464: the metrics rows and the device row are deleted
RaceDeleteCommit(th) ==
    /\ instances[th].pc = "commit"
    /\ devices' = [devices EXCEPT ![RaceDevice].present = FALSE]
    /\ resource_metrics' = [resource_metrics EXCEPT
                              ![RaceDevice] = NoMetrics[RaceDevice]]
    /\ instances' = [instances EXCEPT ![th] = IdleFrame]
    /\ RaceStep(th, "delete_commit")
    /\ UNCHANGED <<jobs, failures>>

NextRace ==
    \E th \in Callers :
        \/ \E schedule \in RaceSchedules : RaceUpdateSchedule(th, schedule)
        \/ RaceCreateApp(th)
        \/ RaceDeleteDevice(th)
        \/ RaceGetJob(th)
        \/ RaceRemoveJob(th)
        \/ RaceAddJob(th)
        \/ RaceDeleteCommit(th)

SpecRace == InitRace /\ [][NextRace]_vars

\* C36: with add_or_update_backup_job and remove_backup_job running
\* concurrently for one device, no call fails: whenever a caller that found
\* the job with get_job is about to call remove_job, the job is still
\* registered.
C36_FoundJobStillRegistered ==
    /\ failures = {}
    /\ \A th \in Callers :
         instances[th].pc = "remove" => BackupJobsOf(jobs, RaceDevice) # {}

\* C37: when every concurrent call has completed, a backup job is registered
\* for the device exactly if the device is stored, enabled and has a
\* schedule of daily, weekly or monthly, and its trigger is the one of the
\* stored schedule.
C37_JobMatchesStoredSchedule ==
    (\A th \in Callers : instances[th].pc = "idle")
    => LET dev == devices[RaceDevice]
           mine == BackupJobsOf(jobs, RaceDevice)
       IN IF /\ dev.present /\ dev.enabled
             /\ dev.schedule \in {"daily", "weekly", "monthly"}
          THEN mine = {[id |-> job_id(RaceDevice),
                        trigger |-> CronFor(dev.schedule)]}
          ELSE mine = {}

-----------------------------------------------------------------------------
(* The failure counter and the outage timer                                *)

\* C38: in every reachable state of every latency check,
\* consecutive_failures > 0 exactly if down_start_at is set.
C38_FailuresIffDownSince ==
    \A id \in PingIds :
        (ping_checks[id].consecutive_failures > 0)
          <=> (ping_checks[id].down_start_at # None)

\* a check in the second timeout of a run that began at the first tick
C38_Witness ==
    /\ obs.job = "ping"
    /\ obs.status[1] = "committed"
    /\ obs.probe[1] = None
    /\ ping_checks[1].consecutive_failures = 2
    /\ ping_checks[1].down_start_at = 1

-----------------------------------------------------------------------------
(* Checks that a tick passes over: device 1 is missing, disabled, without  *)
(* a tenant or without an SNMP v2c community, device 2 is polled           *)

SkippedDevices ==
    {[InitDevices EXCEPT ![1].present = FALSE],
     [InitDevices EXCEPT ![1].enabled = FALSE],
     [InitDevices EXCEPT ![1].company_id = None],
     [InitDevices EXCEPT ![1].snmp_ok = FALSE]}

InitSkip ==
    /\ \E devs \in SkippedDevices : InitStore(devs)
    /\ InitSchedIdle

SkipPingTick ==
    /\ now < MaxBatchNow
    /\ \E probe \in ProbeInputs({i \in PingIds : PingPolled(i)}, PingOutcomes) :
         \E net_ok \in NetInputs(PingMsgs(probe, AllCommit, TRUE, now + 1)) :
           scheduled_ping_job(probe, AllCommit, net_ok, 1)

SkipFiberTick ==
    /\ now < MaxBatchNow
    /\ \E probe \in ProbeInputs({i \in FiberIds : FiberPolled(i)},
                                FiberOutcomes) :
         \E net_ok \in NetInputs(FiberMsgs(probe, NoPower, AllCommit, TRUE,
                                           now + 1)) :
           scheduled_fiber_job(probe, NoPower, AllCommit, net_ok, 1)

NextSkip == SkipPingTick \/ SkipFiberTick

SpecSkip == InitSkip /\ [][NextSkip]_vars

\* the device of a check is missing, disabled or has no tenant
DeviceUnusable(device_id) ==
    \/ ~devices[device_id].present
    \/ ~devices[device_id].enabled
    \/ devices[device_id].company_id = None

\* C39: a latency tick leaves every field of a check unchanged, stores no
\* sample and sends no notification for a check whose device is missing,
\* disabled or has no tenant, and an optical tick does so for a check whose
\* device is one of these or has no SNMP v2c community; the tick goes on to
\* the other checks, whose probe is called.
C39_SkippedCheckUntouched ==
    [][/\ obs'.job = "ping" =>
            \A id \in PingIds :
              DeviceUnusable(ping_checks[id].device_id)
              => /\ ping_checks'[id] = ping_checks[id]
                 /\ ping_samples'[id] = ping_samples[id]
                 /\ \A k \in 1..Len(sent') : sent'[k].item # id
                 /\ \A j \in PingIds :
                      ~DeviceUnusable(ping_checks[j].device_id)
                      => obs'.status[j] \notin {"skip", "unreached", "none"}
       /\ obs'.job = "fiber" =>
            \A id \in FiberIds :
              (\/ DeviceUnusable(fiber_checks[id].device_id)
               \/ ~devices[fiber_checks[id].device_id].snmp_ok)
              => /\ fiber_checks'[id] = fiber_checks[id]
                 /\ fiber_samples'[id] = fiber_samples[id]
                 /\ \A k \in 1..Len(sent') : sent'[k].item # id
                 /\ \A j \in FiberIds :
                      (/\ ~DeviceUnusable(fiber_checks[j].device_id)
                       /\ devices[fiber_checks[j].device_id].snmp_ok)
                      => obs'.status[j] \notin {"skip", "unreached", "none"}
      ]_vars

\* device 1 has no SNMP community: a latency tick has polled its check, and
\* the optical tick after it passed over its optical check and stored the
\* reading of the check of device 2
C39_Witness ==
    /\ obs.job = "fiber"
    /\ ~devices[1].snmp_ok
    /\ ping_checks[1].last_checked_at # None
    /\ obs.status[1] = "skip"
    /\ fiber_checks[1] = InitFiberChecks[1]
    /\ fiber_samples[1] = NoSamples[1]
    /\ obs.status[2] = "committed"
    /\ fiber_checks[2].last_checked_at = now

=============================================================================
